---- MODULE Spec2Model ----
(***************************************************************************)
(* Matchmaking, game completion, leaderboard cache and stats               *)
(* reconciliation of the tictactoe backend (src/app).                      *)
(*                                                                         *)
(* The database tables are variables; one action is one request handler    *)
(* or one iteration of a search task.  The search tasks are asyncio tasks  *)
(* of one event loop: a task gives up control only at `await               *)
(* asyncio.sleep(2)` (the coroutines it awaits contain no suspension       *)
(* point of their own), so one loop iteration is one atomic step, and so   *)
(* is each `async def` handler of the matchmaking service.                 *)
(***************************************************************************)
EXTENDS Integers, Sequences, FiniteSets, TLC

(***************************************************************************)
(* Bounds of the model.                                                    *)
(***************************************************************************)
MaxEntries == 3        \* rows ever inserted into player_queue
MaxGames == 2          \* rows ever inserted into games by the matchmaker
MaxTicks == 1          \* clock ticks observed
ClockStep == 31        \* seconds between two observations of the clock
MaxMoves == 5          \* moves ever made in one game
MaxCacheTicks == 1     \* clock ticks observed by the leaderboard cache
CacheClockStep == 121  \* seconds between two of them
MaxBatchSize == 2      \* largest batch_size given to reconcile_all_player_stats
MaxThreads == 2        \* request threads that share one cache manager
MaxExpiryTicks == 2     \* clock ticks observed while cache entries expire
ExpiryClockStep == 301  \* seconds between two of them
MaxRetentionTicks == 3      \* clock ticks observed by the maintenance jobs
RetentionClockStep == 345600  \* seconds between two of them (four days)
MaxRatedGames == 4     \* rated games one player takes part in
MaxSearchTicks == 3    \* clock ticks observed while searches run
SearchClockStep == 30  \* seconds between two of them

(***************************************************************************)
(* Program constants.                                                      *)
(***************************************************************************)
None == 0                  \* Python None / SQL NULL in an integer column
DEFAULT_RATING == 1200
MinGridSize == 3
MaxGridSize == 10
MinRatingDifference == 50
MaxRatingDifference == 1000
MinWaitTime == 30
MaxWaitTime == 600
CandidateLimit == 10
ExpandInterval == 30
ExpandStep == 50
ExpandFactor == 3
WaitTolerance == 60
MemoryTtl == 120           \* ttl_minutes=2
DatabaseTtl == 600         \* ttl_minutes=10
MemoryCacheSize == 20
DEFAULT_DEVIATION == 350000   \* 350.0, in thousandths
MIN_DEVIATION == 50000       \* 50.0, in thousandths
MAX_RATING_CHANGE == 50
K_FACTOR_NEW == 40
K_FACTOR_INTERMEDIATE == 20
K_FACTOR_VETERAN == 10
NewPlayerGames == 20
VeteranGames == 100
MinRating == 100
FullBoardMoves == 9
DefaultRetentionDays == 7   \* days_old=7
SecondsPerDay == 86400

QueueTypes == {"ranked", "casual", "tournament"}

\* rows of the players table, and an id no players row exists for
PlayerIds == {1, 2, 3}
UnknownIds == {4}
AllIds == PlayerIds \cup UnknownIds

\* rows of player_ratings stored before the service starts
StoredRatings == (1 :> 1240) @@ (2 :> 1220) @@ (3 :> 1200)

\* the join requests clients send: five well-formed ones (the last from an
\* id without a players row) and one malformed request per validation rule
JoinRequest(p, g, d, q, w) ==
    [player_id |-> p, grid_sizes |-> g, max_rating_difference |-> d,
     queue_type |-> q, max_wait_time |-> w]

WellFormedRequests ==
    {JoinRequest(1, <<3>>, 50, "ranked", 30),
     JoinRequest(2, <<4, 5, 4>>, 200, "ranked", 30),
     JoinRequest(2, <<3>>, 200, "casual", 120),
     JoinRequest(3, <<3, 4>>, 200, "ranked", 120),
     JoinRequest(4, <<3>>, 200, "ranked", 30)}

MalformedRequests ==
    {JoinRequest(1, << >>, 50, "ranked", 30),
     JoinRequest(1, <<2>>, 50, "ranked", 30),
     JoinRequest(1, <<3, 11>>, 50, "ranked", 30),
     JoinRequest(1, <<3>>, 49, "ranked", 30),
     JoinRequest(2, <<3>>, 1001, "ranked", 30),
     JoinRequest(2, <<3>>, 200, "blitz", 30),
     JoinRequest(3, <<3>>, 200, "ranked", 29),
     JoinRequest(3, <<3>>, 200, "ranked", 601)}

JoinRequests == WellFormedRequests \cup MalformedRequests

VARIABLES
    now,                 \* datetime.utcnow(), in seconds
    players,             \* players table: id -> denormalized counters
    player_ratings,      \* player_ratings table: player_id -> row
    player_queue,        \* player_queue table: id (index) -> row
    matchmaking_history, \* matchmaking_history table
    games,               \* games table: id (index) -> row
    game_players,        \* game_players table
    moves,               \* moves table
    search_task,         \* the asyncio task started for each queue entry
    active_searches,     \* MatchmakingService.active_searches
    leaderboard_cache,   \* leaderboard_cache table (Tier 2): key -> row
    memory_cache,        \* _memory_cache and _cache_ttl of a cache manager (Tier 1)
    read_result,         \* what the latest get_leaderboard returned
    reconcile,           \* progress of reconcile_all_player_stats
    rating_call,         \* the latest rating update: its inputs and results
    integrity_report,    \* what the latest validate_data_integrity returned
    tier1,               \* _memory_cache and _cache_ttl under threads, and the threads
    join_call,           \* the join_game calls of the request threads in progress
    error_log,           \* what logger.error has reported
    response             \* outcome of the latest API call

mmVars == <<player_ratings, player_queue, matchmaking_history, search_task,
            active_searches>>
gameVars == <<games, game_players, moves>>
cacheVars == <<leaderboard_cache, memory_cache, read_result>>
vars == <<now, players, player_ratings, player_queue, matchmaking_history,
          games, game_players, moves, search_task, active_searches,
          leaderboard_cache, memory_cache, read_result, reconcile, rating_call, integrity_report, tier1, join_call,
          error_log, response>>

\* what an API call answered: success flag, the queue entry id of a join,
\* the exception of a failed call
Response(op, ok, queue_id, error) ==
    [op |-> op, ok |-> ok, queue_id |-> queue_id, error |-> error]

LogEntry(msg, id) == [msg |-> msg, id |-> id]

Min(a, b) == IF a <= b THEN a ELSE b
Abs(x) == IF x >= 0 THEN x ELSE 0 - x
Range(s) == {s[i] : i \in DOMAIN s}
SetMin(S) == CHOOSE x \in S : \A y \in S : x <= y

(***************************************************************************)
(* Game service: create_game and join_game.                                *)
(***************************************************************************)
EmptyBoard(n) == [c \in (0 .. n - 1) \X (0 .. n - 1) |-> None]

NewGame(grid_size) ==
    [status |-> "waiting", grid_size |-> grid_size, current_turn |-> None,
     winner_id |-> None, board |-> EmptyBoard(grid_size)]

\* Result: the exception raised ("" for none) and the committed tables.
create_game(gs, gps, pl, creator_id, grid_size) ==
    IF ~(MinGridSize <= grid_size /\ grid_size <= MaxGridSize)
    THEN [raised |-> "ValueError", games |-> gs, game_players |-> gps, id |-> None]
    ELSE IF creator_id \notin DOMAIN pl
    THEN [raised |-> "PlayerNotFound", games |-> gs, game_players |-> gps, id |-> None]
    ELSE [raised |-> "",
          games |-> Append(gs, NewGame(grid_size)),
          game_players |-> gps \cup {[game_id |-> Len(gs) + 1,
                                      player_id |-> creator_id,
                                      player_order |-> 1]},
          id |-> Len(gs) + 1]

join_game(gs, gps, pl, game_id, player_id) ==
    LET unchanged(exc) == [raised |-> exc, games |-> gs, game_players |-> gps]
        inGame == {gp \in gps : gp.game_id = game_id}
    IN  IF game_id \notin DOMAIN gs THEN unchanged("GameNotFound")
        ELSE IF player_id \notin DOMAIN pl THEN unchanged("PlayerNotFound")
        ELSE IF gs[game_id].status # "waiting" THEN unchanged("GameFull")
        ELSE IF \E gp \in inGame : gp.player_id = player_id THEN unchanged("GameFull")
        ELSE IF Cardinality(inGame) >= 2 THEN unchanged("GameFull")
        ELSE LET first_player == CHOOSE gp \in inGame : gp.player_order = 1
             IN  [raised |-> "",
                  games |-> [gs EXCEPT ![game_id].status = "active",
                                       ![game_id].current_turn = first_player.player_id],
                  game_players |-> gps \cup {[game_id |-> game_id,
                                              player_id |-> player_id,
                                              player_order |-> 2]}]

(***************************************************************************)
(* Join request validation (schemas/matchmaking.py) and preferences.       *)
(***************************************************************************)
validate_grid_sizes_NonEmptyOnly(v) == Len(v) > 0

validate_grid_sizes(v) ==
    /\ Len(v) > 0
    /\ \A i \in DOMAIN v : MinGridSize <= v[i] /\ v[i] <= MaxGridSize

validate_queue_type(v) == v \in QueueTypes

\* TRUE iff pydantic accepts the request body
MatchmakingRequest(request) ==
    /\ validate_grid_sizes(request.grid_sizes)
    /\ MinRatingDifference <= request.max_rating_difference
    /\ request.max_rating_difference <= MaxRatingDifference
    /\ validate_queue_type(request.queue_type)
    /\ MinWaitTime <= request.max_wait_time
    /\ request.max_wait_time <= MaxWaitTime

\* list(set(v)) of the validator; to_json/from_json keep the four fields
MatchmakingPreferences(request) ==
    [grid_sizes |-> Range(request.grid_sizes),
     max_rating_difference |-> request.max_rating_difference,
     preferred_queue_type |-> request.queue_type,
     max_wait_time |-> request.max_wait_time]

(***************************************************************************)
(* Compatibility score, as the exact fraction num / den (den = 100 * the   *)
(* smaller max_rating_difference, which validation keeps >= 50).           *)
(***************************************************************************)
_calculate_match_compatibility_OwnLimit(prefs1, prefs2, rating1, rating2) ==
    LET rating_diff == Abs(rating1 - rating2)
        max_acceptable_diff == prefs1.max_rating_difference
        grid == IF prefs1.grid_sizes \cap prefs2.grid_sizes # {} THEN 40 ELSE 0
        rating == IF rating_diff <= max_acceptable_diff
                  THEN 35 * (max_acceptable_diff - rating_diff) ELSE 0
        queue == IF prefs1.preferred_queue_type = prefs2.preferred_queue_type
                 THEN 15 ELSE 0
        wait == IF Abs(prefs1.max_wait_time - prefs2.max_wait_time) <= WaitTolerance
                THEN 10 ELSE 0
    IN  [num |-> (grid + queue + wait) * max_acceptable_diff + rating,
         den |-> 100 * max_acceptable_diff]

_calculate_match_compatibility(prefs1, prefs2, rating1, rating2) ==
    LET rating_diff == Abs(rating1 - rating2)
        max_acceptable_diff == Min(prefs1.max_rating_difference,
                                   prefs2.max_rating_difference)
        grid == IF prefs1.grid_sizes \cap prefs2.grid_sizes # {} THEN 40 ELSE 0
        rating == IF rating_diff <= max_acceptable_diff
                  THEN 35 * (max_acceptable_diff - rating_diff) ELSE 0
        queue == IF prefs1.preferred_queue_type = prefs2.preferred_queue_type
                 THEN 15 ELSE 0
        wait == IF Abs(prefs1.max_wait_time - prefs2.max_wait_time) <= WaitTolerance
                THEN 10 ELSE 0
    IN  [num |-> (grid + queue + wait) * max_acceptable_diff + rating,
         den |-> 100 * max_acceptable_diff]

ScoreGreater(a, b) == a.num * b.den > b.num * a.den
\* score > 0.3
AboveThreshold(s) == 10 * s.num > 3 * s.den

(***************************************************************************)
(* Matchmaking service.                                                    *)
(***************************************************************************)
\* a player_ratings row; rating_deviation is kept in thousandths
PlayerRating(overall_rating, grid_rating, games_played, rating_deviation, current_win_streak, current_loss_streak, best_win_streak) ==
    [overall_rating |-> overall_rating,
     grid_3x3_rating |-> grid_rating,
     grid_4x4_rating |-> grid_rating,
     grid_5x5_rating |-> grid_rating,
     games_played |-> games_played,
     rating_deviation |-> rating_deviation,
     peak_rating |-> IF overall_rating > DEFAULT_RATING THEN overall_rating
                     ELSE DEFAULT_RATING,
     current_win_streak |-> current_win_streak,
     current_loss_streak |-> current_loss_streak,
     best_win_streak |-> best_win_streak]

DefaultRatingRow ==
    PlayerRating(DEFAULT_RATING, DEFAULT_RATING, 0, DEFAULT_DEVIATION, 0, 0, 0)

\* get-or-create of the player's rating row
_get_player_rating(pr, player_id) ==
    IF player_id \in DOMAIN pr THEN pr ELSE pr @@ (player_id :> DefaultRatingRow)

PlayerQueue(player_id, preferences, rating) ==
    [player_id |-> player_id,
     preferences |-> preferences,
     skill_rating |-> rating,
     queue_type |-> preferences.preferred_queue_type,
     status |-> "searching",
     joined_at |-> now,
     search_expanded_at |-> None,
     matched_at |-> None,
     initial_rating_range |-> preferences.max_rating_difference,
     current_rating_range |-> preferences.max_rating_difference,
     max_wait_time |-> preferences.max_wait_time]

\* join_matchmaking's lookup of the player's Searching entry
ExistingQueue_Skipped(player_id) == {}

ExistingQueue(player_id) ==
    {i \in DOMAIN player_queue : /\ player_queue[i].player_id = player_id
                                 /\ player_queue[i].status = "searching"}

\* the rows leave_matchmaking's UPDATE matches
LeaveTargets_AnyStatus(player_id) ==
    {i \in DOMAIN player_queue : player_queue[i].player_id = player_id}

LeaveTargets(player_id) ==
    {i \in DOMAIN player_queue : /\ player_queue[i].player_id = player_id
                                 /\ player_queue[i].status = "searching"}

\* task.cancel() for the tasks registered under the given players, and
\* their removal from active_searches
CancelSearches_Skipped(tasks, pids) == tasks

CancelSearches(tasks, pids) ==
    [t \in DOMAIN tasks |->
        IF /\ \E p \in pids : active_searches[p] = t
           /\ tasks[t] = "scheduled"
        THEN "cancelled" ELSE tasks[t]]

\* a removal that forgets only one of the given players
ForgetSearches_One(pids) ==
    [p \in AllIds |-> IF pids # {} /\ p = SetMin(pids) THEN None
                      ELSE active_searches[p]]

ForgetSearches(pids) ==
    [p \in AllIds |-> IF p \in pids THEN None ELSE active_searches[p]]

\* POST /matchmaking/join: request validation, then join_matchmaking
JoinMatchmaking(request) ==
    LET player_id == request.player_id
        existing_queue == ExistingQueue(player_id)
    IN  IF ~MatchmakingRequest(request)
        THEN /\ response' = Response("join", FALSE, None, "ValidationError")
             /\ UNCHANGED <<now, players, mmVars, gameVars, cacheVars, reconcile, rating_call, integrity_report, tier1, join_call, error_log>>
        ELSE IF existing_queue # {}
        THEN /\ response' = Response("join", TRUE, SetMin(existing_queue), "")
             /\ UNCHANGED <<now, players, mmVars, gameVars, cacheVars, reconcile, rating_call, integrity_report, tier1, join_call, error_log>>
        ELSE LET preferences == MatchmakingPreferences(request)
                 ratings == _get_player_rating(player_ratings, player_id)
                 queue_entry == PlayerQueue(player_id, preferences,
                                            ratings[player_id].overall_rating)
                 id == Len(player_queue) + 1
             IN  /\ Len(player_queue) < MaxEntries
                 /\ player_ratings' = ratings
                 /\ player_queue' = Append(player_queue, queue_entry)
                 /\ search_task' = Append(search_task, "scheduled")
                 /\ active_searches' = [active_searches EXCEPT ![player_id] = id]
                 /\ response' = Response("join", TRUE, id, "")
                 /\ UNCHANGED <<now, players, matchmaking_history, gameVars,
                                cacheVars, reconcile, rating_call, integrity_report, tier1, join_call, error_log>>

\* POST /matchmaking/leave
LeaveMatchmaking(player_id) ==
    LET updated == LeaveTargets(player_id)
    IN  /\ search_task' = CancelSearches(search_task, {player_id})
        /\ active_searches' = ForgetSearches({player_id})
        /\ player_queue' = [i \in DOMAIN player_queue |->
                              IF i \in updated
                              THEN [player_queue[i] EXCEPT !.status = "cancelled",
                                                           !.matched_at = now]
                              ELSE player_queue[i]]
        /\ response' = Response("leave", updated # {}, None, "")
        /\ UNCHANGED <<now, players, player_ratings, matchmaking_history,
                       gameVars, cacheVars, reconcile, rating_call, integrity_report, tier1, join_call, error_log>>

\* same queue class and rating inside e's current range
InReach(e, j) ==
    /\ player_queue[j].queue_type = player_queue[e].queue_type
    /\ player_queue[j].skill_rating >=
           player_queue[e].skill_rating - player_queue[e].current_rating_range
    /\ player_queue[j].skill_rating <=
           player_queue[e].skill_rating + player_queue[e].current_rating_range

\* the rows the candidate query of _find_match matches
CandidateFilter_AnyStatus(e, j) == j # e /\ InReach(e, j)

CandidateFilter(e, j) ==
    /\ j # e
    /\ player_queue[j].status = "searching"
    /\ InReach(e, j)

RatingDistance(e, j) == Abs(player_queue[j].skill_rating - player_queue[e].skill_rating)

\* the possible results of the query: the matching rows ordered by rating
\* distance (rows at equal distance in any order), cut to the first 10
potential_opponents(e) ==
    LET S == {j \in DOMAIN player_queue : CandidateFilter(e, j)}
        n == Cardinality(S)
        orders == {f \in [1 .. n -> S] :
                     /\ \A i, k \in 1 .. n : i # k => f[i] # f[k]
                     /\ \A i, k \in 1 .. n :
                          i < k => RatingDistance(e, f[i]) <= RatingDistance(e, f[k])}
    IN  {SubSeq(f, 1, Min(n, CandidateLimit)) : f \in orders}

OpponentScore(e, j) ==
    _calculate_match_compatibility(player_queue[e].preferences,
                                   player_queue[j].preferences,
                                   player_queue[e].skill_rating,
                                   player_queue[j].skill_rating)

\* the first candidate that scores above 0.3
_select_best_opponent_First(e, opponents) ==
    LET scored == {i \in DOMAIN opponents : AboveThreshold(OpponentScore(e, opponents[i]))}
    IN  IF scored = {} THEN None
        ELSE opponents[CHOOSE i \in scored : \A k \in scored : i <= k]

\* the first candidate of the highest score above 0.3 (the sort is stable)
_select_best_opponent(e, opponents) ==
    LET scored == {i \in DOMAIN opponents : AboveThreshold(OpponentScore(e, opponents[i]))}
        top == {i \in scored :
                  \A k \in scored : ~ScoreGreater(OpponentScore(e, opponents[k]),
                                                  OpponentScore(e, opponents[i]))}
    IN  IF scored = {} THEN None
        ELSE opponents[CHOOSE i \in top : \A k \in top : i <= k]

MatchmakingHistory_Signed(e1, e2, game_id) ==
    [player1_id |-> player_queue[e1].player_id,
     player2_id |-> player_queue[e2].player_id,
     game_id |-> game_id,
     rating_difference |-> player_queue[e1].skill_rating
                           - player_queue[e2].skill_rating,
     wait_time_player1 |-> now - player_queue[e1].joined_at,
     wait_time_player2 |-> now - player_queue[e2].joined_at,
     preference_match_score |-> OpponentScore(e1, e2)]

MatchmakingHistory(e1, e2, game_id) ==
    [player1_id |-> player_queue[e1].player_id,
     player2_id |-> player_queue[e2].player_id,
     game_id |-> game_id,
     rating_difference |-> Abs(player_queue[e1].skill_rating
                               - player_queue[e2].skill_rating),
     wait_time_player1 |-> now - player_queue[e1].joined_at,
     wait_time_player2 |-> now - player_queue[e2].joined_at,
     preference_match_score |-> OpponentScore(e1, e2)]

\* _create_match: create_game and join_game commit on their own; the
\* status changes and the history row are committed together afterwards.
_create_match(e1, e2) ==
    LET p1 == player_queue[e1].player_id
        p2 == player_queue[e2].player_id
        common_grid_sizes == player_queue[e1].preferences.grid_sizes
                             \cap player_queue[e2].preferences.grid_sizes
        grid_size == IF common_grid_sizes # {} THEN SetMin(common_grid_sizes)
                     ELSE MinGridSize
        created == create_game(games, game_players, players, p1, grid_size)
        joined == join_game(created.games, created.game_players, players,
                            created.id, p2)
        failed(c) == [success |-> FALSE,
                      games |-> c.games, game_players |-> c.game_players,
                      player_queue |-> player_queue,
                      matchmaking_history |-> matchmaking_history,
                      search_task |-> search_task,
                      active_searches |-> active_searches,
                      error_log |-> error_log \cup {LogEntry("Failed to create match", e1)}]
    IN  IF created.raised # "" THEN failed(created)
        ELSE IF joined.raised # "" THEN failed(joined)
        ELSE [success |-> TRUE,
              games |-> joined.games, game_players |-> joined.game_players,
              player_queue |-> [i \in DOMAIN player_queue |->
                                  IF i \in {e1, e2}
                                  THEN [player_queue[i] EXCEPT !.status = "matched",
                                                               !.matched_at = now]
                                  ELSE player_queue[i]],
              matchmaking_history |-> Append(matchmaking_history,
                                             MatchmakingHistory(e1, e2, created.id)),
              search_task |-> CancelSearches(search_task, {p1, p2}),
              active_searches |-> ForgetSearches({p1, p2}),
              error_log |-> error_log]

\* _find_match on one result of the candidate query
_find_match(e, opponents) ==
    LET best_opponent == _select_best_opponent(e, opponents)
    IN  IF best_opponent = None
        THEN [success |-> FALSE,
              games |-> games, game_players |-> game_players,
              player_queue |-> player_queue,
              matchmaking_history |-> matchmaking_history,
              search_task |-> search_task,
              active_searches |-> active_searches,
              error_log |-> error_log]
        ELSE _create_match(e, best_opponent)

_maybe_expand_search_criteria(queue_entry) ==
    IF /\ now - queue_entry.joined_at >= ExpandInterval
       /\ queue_entry.current_rating_range < queue_entry.initial_rating_range * ExpandFactor
       /\ \/ queue_entry.search_expanded_at = None
          \/ now - queue_entry.search_expanded_at >= ExpandInterval
    THEN [queue_entry EXCEPT
            !.current_rating_range = Min(queue_entry.current_rating_range + ExpandStep,
                                         queue_entry.initial_rating_range * ExpandFactor),
            !.search_expanded_at = now]
    ELSE queue_entry

\* a timeout handler that leaves the entry as it is
_handle_matchmaking_timeout_Kept(queue_entry) == queue_entry

_handle_matchmaking_timeout(queue_entry) ==
    [queue_entry EXCEPT !.status = "timeout", !.matched_at = now]

\* The body of the loop of _continuous_matchmaking_search for a Searching
\* entry e, on one result of the candidate query: the tables and the task
\* registry it leaves behind.
_continuous_matchmaking_search(e, opponents) ==
    LET match_result == _find_match(e, opponents)
        expanded == _maybe_expand_search_criteria(player_queue[e])
        timed_out == now - expanded.joined_at > expanded.max_wait_time
    IN  IF match_result.success
        THEN [match_result EXCEPT !.search_task[e] = "finished"]
        ELSE IF timed_out
        THEN [match_result EXCEPT
                !.player_queue = [player_queue EXCEPT
                                    ![e] = _handle_matchmaking_timeout(expanded)],
                !.search_task = [search_task EXCEPT ![e] = "finished"],
                !.active_searches = ForgetSearches({expanded.player_id})]
        ELSE [match_result EXCEPT
                !.player_queue = [player_queue EXCEPT ![e] = expanded]]

\* One iteration of _continuous_matchmaking_search for queue entry e.
SearchIteration(e) ==
    /\ e \in DOMAIN player_queue
    /\ search_task[e] = "scheduled"
    /\ IF player_queue[e].status # "searching"
       THEN /\ search_task' = [search_task EXCEPT ![e] = "finished"]
            /\ UNCHANGED <<now, players, player_ratings, player_queue,
                           matchmaking_history, active_searches, gameVars,
                           cacheVars, reconcile, rating_call, integrity_report, tier1, join_call, error_log, response>>
       ELSE \E opponents \in potential_opponents(e) :
              LET iteration == _continuous_matchmaking_search(e, opponents)
              IN  /\ Len(iteration.games) <= MaxGames
                  /\ games' = iteration.games
                  /\ game_players' = iteration.game_players
                  /\ matchmaking_history' = iteration.matchmaking_history
                  /\ error_log' = iteration.error_log
                  /\ player_queue' = iteration.player_queue
                  /\ search_task' = iteration.search_task
                  /\ active_searches' = iteration.active_searches
                  /\ UNCHANGED <<now, players, player_ratings, moves, cacheVars,
                                 reconcile, rating_call, integrity_report, tier1, join_call, response>>

Tick ==
    /\ now < (MaxTicks + 1) * ClockStep
    /\ now' = now + ClockStep
    /\ UNCHANGED <<players, mmVars, gameVars, cacheVars, reconcile, rating_call, integrity_report, tier1, join_call, error_log,
                   response>>

NoEfficiency == [num |-> 0, den |-> 0]      \* efficiency IS NULL
NoCounters == [total_wins |-> 0, total_win_moves |-> 0, efficiency |-> NoEfficiency]
NoRead == [key |-> <<"", 0>>, data |-> << >>, tier |-> 0,
           counters |-> [p \in PlayerIds |-> NoCounters]]
NoRatingCall == [winner_id |-> None, loser_id |-> None, grid_size |-> None]
\* a thread that is not inside a call on the cache manager; raised, returned
\* and stale tell how its latest call ended (stale: the entry returned had
\* no unexpired expiry and was stored more than its time to live ago)
IdleThread ==
    [pc |-> "idle", cache_key |-> <<"", 0>>, pattern |-> "", keys |-> {},
     raised |-> "", returned |-> None, stale |-> FALSE]

Threads == 1 .. MaxThreads

\* a request thread that is not inside join_game
NoJoin == [pc |-> "idle", game_id |-> None, player_id |-> None]

\* the two empty dictionaries of a new manager, and the threads that share it
NoThreads ==
    [memory_cache |-> << >>, cache_ttl |-> << >>,
     thread |-> [t \in Threads |-> IdleThread]]

NoReport == [total_issues |-> 0, issues |-> << >>]

NotReconciling == [running |-> FALSE, finished |-> FALSE, batch_size |-> 0, offset |-> 0,
                   updated_players |-> 0, errors |-> 0, batches_processed |-> 0]

\* the service after start-up on a database that holds the players and
\* their ratings and nothing else
InitProcess ==
    /\ now = ClockStep
    /\ player_queue = << >>
    /\ matchmaking_history = << >>
    /\ search_task = << >>
    /\ active_searches = [p \in AllIds |-> None]
    /\ read_result = NoRead
    /\ reconcile = NotReconciling
    /\ rating_call = NoRatingCall
    /\ integrity_report = NoReport
    /\ tier1 = NoThreads
    /\ join_call = [t \in Threads |-> NoJoin]
    /\ error_log = {}
    /\ response = Response("none", TRUE, None, "")

\* the cache manager starts with an empty dictionary
InitServiceState ==
    /\ InitProcess
    /\ memory_cache = << >>

StoredRatingRows ==
    [p \in DOMAIN StoredRatings |->
        PlayerRating(StoredRatings[p], StoredRatings[p], 0, DEFAULT_DEVIATION, 0, 0, 0)]

InitService ==
    /\ InitServiceState
    /\ player_ratings = StoredRatingRows

Database(gs, gps, mvs, pl, lc) ==
    [games |-> gs, game_players |-> gps, moves |-> mvs, players |-> pl,
     leaderboard_cache |-> lc]

InitDatabase(db) ==
    /\ players = db.players
    /\ games = db.games
    /\ game_players = db.game_players
    /\ moves = db.moves
    /\ leaderboard_cache = db.leaderboard_cache

\* the players are registered; nothing has been played or cached
EmptyDatabase ==
    Database(<< >>, {}, << >>, [p \in PlayerIds |-> NoCounters], << >>)

Init ==
    /\ InitService
    /\ InitDatabase(EmptyDatabase)

Next ==
    \/ \E request \in JoinRequests : JoinMatchmaking(request)
    \/ \E p \in AllIds : LeaveMatchmaking(p)
    \/ \E e \in 1 .. MaxEntries + 1 : SearchIteration(e)
    \/ Tick

Spec == Init /\ [][Next]_vars

(***************************************************************************)
(* The search processes over a longer stretch of time: fewer kinds of      *)
(* request, a finer clock, and the loop's exception handler.               *)
(***************************************************************************)
\* the except branch of _continuous_matchmaking_search: a query or commit
\* of the iteration raises, the error is logged and the task ends; the
\* entry and the task's registration stay as they are
SearchFailure(e) ==
    /\ e \in DOMAIN player_queue
    /\ search_task[e] = "scheduled"
    /\ search_task' = [search_task EXCEPT ![e] = "finished"]
    /\ error_log' = error_log \cup {LogEntry("Error in matchmaking search", e)}
    /\ UNCHANGED <<now, players, player_ratings, player_queue, matchmaking_history,
                   active_searches, gameVars, cacheVars, reconcile, rating_call,
                   integrity_report, tier1, join_call, response>>

SearchTick ==
    /\ now < ClockStep + MaxSearchTicks * SearchClockStep
    /\ now' = now + SearchClockStep
    /\ UNCHANGED <<players, mmVars, gameVars, cacheVars, reconcile, rating_call,
                   integrity_report, tier1, join_call, error_log, response>>

\* three players inside each other's radius: players 2 and 3 score 0.76,
\* players 1 and 2 score 0.46, players 1 and 3 score 0.22, below the floor;
\* the radius 60 meets its cap 180 with a last step of 20
SearchRequests ==
    {JoinRequest(1, <<4>>, 50, "ranked", 30),
     JoinRequest(2, <<3>>, 50, "ranked", 30),
     JoinRequest(3, <<3>>, 60, "ranked", 120)}

\* the player who may leave the queue
SearchLeavers == {1}

NextSearch ==
    \/ \E request \in SearchRequests : JoinMatchmaking(request)
    \/ \E p \in SearchLeavers : LeaveMatchmaking(p)
    \/ \E e \in 1 .. MaxEntries : SearchIteration(e)
    \/ \E e \in 1 .. MaxEntries : SearchFailure(e)
    \/ SearchTick

SpecSearch == Init /\ [][NextSearch]_vars

\* every scheduled task gets its turn on the event loop, and time passes
SpecSearchFair ==
    /\ SpecSearch
    /\ \A e \in 1 .. MaxEntries : WF_vars(SearchIteration(e) \/ SearchFailure(e))
    /\ WF_vars(SearchTick)

(***************************************************************************)
(* A pool whose ratings lie further apart than the narrowest radius.       *)
(***************************************************************************)
\* players 1 and 2 are 60 apart, players 1 and 3 are 80 apart: more than
\* player 1's radius of 50, less than the radius of the other two
DistantRatings == (1 :> 1280) @@ (2 :> 1220) @@ (3 :> 1200)

DistantRatingRows ==
    [p \in DOMAIN DistantRatings |->
        PlayerRating(DistantRatings[p], DistantRatings[p], 0, DEFAULT_DEVIATION, 0, 0, 0)]

DistantRequests ==
    {JoinRequest(1, <<3>>, 50, "ranked", 30),
     JoinRequest(2, <<3>>, 200, "ranked", 30),
     JoinRequest(3, <<3>>, 100, "ranked", 120)}

InitDistant ==
    /\ InitServiceState
    /\ player_ratings = DistantRatingRows
    /\ InitDatabase(EmptyDatabase)

NextDistant ==
    \/ \E request \in DistantRequests : JoinMatchmaking(request)
    \/ \E e \in 1 .. MaxEntries : SearchIteration(e)
    \/ SearchTick

SpecDistant == InitDistant /\ [][NextDistant]_vars

(***************************************************************************)
(* Two players who suit each other, and their two search processes.        *)
(***************************************************************************)
\* players 2 and 3 are 20 apart, inside both radii, and score 0.76
PairRequests ==
    {JoinRequest(2, <<3>>, 50, "ranked", 30),
     JoinRequest(3, <<3>>, 60, "ranked", 120)}

PairEntries == 1 .. Cardinality(PairRequests)

NextPair ==
    \/ \E request \in PairRequests : JoinMatchmaking(request)
    \/ \E e \in PairEntries : SearchIteration(e)
    \/ \E e \in PairEntries : SearchFailure(e)
    \/ SearchTick

SpecPair == Init /\ [][NextPair]_vars

\* every scheduled task gets its turn on the event loop, and time passes
SpecPairFair ==
    /\ SpecPair
    /\ \A e \in PairEntries : WF_vars(SearchIteration(e) \/ SearchFailure(e))
    /\ WF_vars(SearchTick)

(***************************************************************************)
(* Game play: GameValidator.validate_move, GameService.make_move and the   *)
(* real-time statistics path behind a win.  The operators work on the      *)
(* tables the session sees: db.games, db.game_players, db.moves,           *)
(* db.players and db.leaderboard_cache.                                    *)
(***************************************************************************)
is_valid_position(game, row, col) ==
    0 <= row /\ row < game.grid_size /\ 0 <= col /\ col < game.grid_size

\* the exception validate_move raises, "" when the move is legal
validate_move_AnyTurn(db, game_id, player_id, row, col) ==
    LET game == db.games[game_id]
    IN  IF game.status # "active" THEN "GameEnded"
        ELSE IF ~\E gp \in db.game_players :
                    gp.game_id = game_id /\ gp.player_id = player_id
             THEN "PlayerNotFound"
        ELSE IF ~is_valid_position(game, row, col) THEN "ValueError"
        ELSE IF game.board[<<row, col>>] # None THEN "CellOccupied"
        ELSE ""

validate_move(db, game_id, player_id, row, col) ==
    LET game == db.games[game_id]
    IN  IF game.status # "active" THEN "GameEnded"
        ELSE IF ~\E gp \in db.game_players :
                    gp.game_id = game_id /\ gp.player_id = player_id
             THEN "PlayerNotFound"
        ELSE IF game.current_turn # player_id THEN "NotYourTurn"
        ELSE IF ~is_valid_position(game, row, col) THEN "ValueError"
        ELSE IF game.board[<<row, col>>] # None THEN "CellOccupied"
        ELSE ""

_check_win(board, grid_size, player_id) ==
    LET idx == 0 .. grid_size - 1
    IN  \/ \E row \in idx : \A col \in idx : board[<<row, col>>] = player_id
        \/ \E col \in idx : \A row \in idx : board[<<row, col>>] = player_id
        \/ \A i \in idx : board[<<i, i>>] = player_id
        \/ \A i \in idx : board[<<i, grid_size - 1 - i>>] = player_id

_is_board_full(board) == \A c \in DOMAIN board : board[c] # None

\* the UPDATE of update_player_efficiency.  The statement carries a
\* PostgreSQL cast, so whether it executes depends on the database behind
\* the session: sql_ok says whether it does.  When it fails the handler
\* rolls the session back and re-raises.
update_player_efficiency(pending, player_id, moves_in_win, sql_ok) ==
    IF ~sql_ok
    THEN [raised |-> "OperationalError", db |-> pending]
    ELSE IF player_id \notin DOMAIN pending.players
    THEN [raised |-> "", db |-> pending]
    ELSE LET row == pending.players[player_id]
             updated == [total_wins |-> row.total_wins + 1,
                         total_win_moves |-> row.total_win_moves + moves_in_win,
                         efficiency |-> [num |-> row.total_win_moves + moves_in_win,
                                         den |-> row.total_wins + 1]]
         IN  [raised |-> "",
              db |-> [pending EXCEPT !.players[player_id] = updated]]

\* on_game_completed counts the winner's moves with a query; the session
\* does not autoflush, so the query sees the committed rows only and the
\* move that is being made is not among them.
on_game_completed(committed, pending, game_id, sql_ok) ==
    LET winner_id == pending.games[game_id].winner_id
        winner_moves == Cardinality({i \in DOMAIN committed.moves :
                                        /\ committed.moves[i].game_id = game_id
                                        /\ committed.moves[i].player_id = winner_id})
    IN  IF winner_id = None \/ winner_moves = 0
        THEN [raised |-> "", db |-> pending]
        ELSE update_player_efficiency(pending, winner_id, winner_moves, sql_ok)

\* invalidate_cache(leaderboard_type) on a manager that was just built:
\* its own memory cache is empty, the rows of the type leave the table
\* (all rows when no type is given)
DeleteCacheRows(lc, leaderboard_type) ==
    [k \in {key \in DOMAIN lc : leaderboard_type # "" /\ key[1] # leaderboard_type}
        |-> lc[k]]

\* _update_winner_stats: a failure of the statistics update is caught and
\* logged; by then the session has been rolled back to the committed rows
_update_winner_stats(committed, pending, game_id, sql_ok) ==
    LET completed == on_game_completed(committed, pending, game_id, sql_ok)
    IN  IF pending.games[game_id].winner_id = None
        THEN [rolled_back |-> FALSE, db |-> pending, logged |-> {}]
        ELSE IF completed.raised # ""
        THEN [rolled_back |-> TRUE, db |-> committed,
              logged |-> {LogEntry("Failed to update player efficiency",
                                   pending.games[game_id].winner_id),
                          LogEntry("Failed to update winner stats", game_id)}]
        ELSE [rolled_back |-> FALSE,
              db |-> [completed.db EXCEPT !.leaderboard_cache =
                        DeleteCacheRows(DeleteCacheRows(@, "wins"), "efficiency")],
              logged |-> {}]

Move(game_id, player_id, row, col, move_number) ==
    [game_id |-> game_id, player_id |-> player_id, row |-> row, col |-> col,
     move_number |-> move_number]

\* Result: the exception raised ("" for none), the committed tables and
\* what was logged on the way.
make_move(db, game_id, player_id, row, col, sql_ok) ==
    LET failed(exc) == [raised |-> exc, db |-> db, logged |-> {}]
    IN  IF game_id \notin DOMAIN db.games THEN failed("GameNotFound")
        ELSE IF validate_move(db, game_id, player_id, row, col) # ""
        THEN failed(validate_move(db, game_id, player_id, row, col))
        ELSE
        LET game == db.games[game_id]
            board == [game.board EXCEPT ![<<row, col>>] = player_id]
            move_number == Cardinality({i \in DOMAIN db.moves :
                                           db.moves[i].game_id = game_id}) + 1
            pending == [db EXCEPT
                          !.games[game_id].board = board,
                          !.moves = Append(@, Move(game_id, player_id, row, col,
                                                   move_number))]
            next_player == CHOOSE gp \in db.game_players :
                               gp.game_id = game_id /\ gp.player_id # player_id
        IN  IF _check_win(board, game.grid_size, player_id)
            THEN LET won == [pending EXCEPT !.games[game_id].status = "completed",
                                            !.games[game_id].winner_id = player_id]
                     stats == _update_winner_stats(db, won, game_id, sql_ok)
                 IN  IF stats.rolled_back
                     \* commit finds nothing to write and refresh(move)
                     \* raises on the move the rollback threw out
                     THEN [raised |-> "InvalidRequestError", db |-> db,
                           logged |-> stats.logged]
                     ELSE [raised |-> "", db |-> stats.db, logged |-> {}]
            ELSE IF _is_board_full(board)
            THEN [raised |-> "",
                  db |-> [pending EXCEPT !.games[game_id].status = "completed"],
                  logged |-> {}]
            ELSE [raised |-> "",
                  db |-> [pending EXCEPT
                            !.games[game_id].current_turn = next_player.player_id],
                  logged |-> {}]

MakeMove(game_id, player_id, row, col, sql_ok) ==
    LET result == make_move(Database(games, game_players, moves, players,
                                     leaderboard_cache),
                            game_id, player_id, row, col, sql_ok)
    IN  /\ Cardinality({i \in DOMAIN moves : moves[i].game_id = game_id}) < MaxMoves
        /\ games' = result.db.games
        /\ moves' = result.db.moves
        /\ players' = result.db.players
        /\ leaderboard_cache' = result.db.leaderboard_cache
        /\ error_log' = error_log \cup result.logged
        /\ response' = Response("move", result.raised = "", None, result.raised)
        /\ UNCHANGED <<now, mmVars, game_players, memory_cache, read_result,
                       reconcile, rating_call, integrity_report, tier1, join_call>>

\* the tables after the listed calls of make_move, each of which succeeds
RECURSIVE Played(_, _)
Played(db, calls) ==
    IF calls = << >> THEN db
    ELSE Played(make_move(db, calls[1][1], calls[1][2], calls[1][3], calls[1][4],
                          TRUE).db,
                Tail(calls))

\* a 3x3 game that player 1 created and player 2 joined
GameStarted ==
    LET created == create_game(EmptyDatabase.games, EmptyDatabase.game_players,
                               EmptyDatabase.players, 1, MinGridSize)
        joined == join_game(created.games, created.game_players,
                            EmptyDatabase.players, created.id, 2)
    IN  [EmptyDatabase EXCEPT !.games = joined.games,
                              !.game_players = joined.game_players]

InitGame ==
    /\ InitService
    /\ InitDatabase(GameStarted)

\* the cells of the smallest grid and one position outside it
MovePositions ==
    ((0 .. MinGridSize - 1) \X (0 .. MinGridSize - 1)) \cup {<<MinGridSize, 0>>}

NextGame ==
    \/ \E player_id \in PlayerIds, pos \in MovePositions, sql_ok \in BOOLEAN :
            MakeMove(1, player_id, pos[1], pos[2], sql_ok)
    \/ \E player_id \in PlayerIds :
            MakeMove(Len(games) + 1, player_id, 0, 0, TRUE)

SpecGame == InitGame /\ [][NextGame]_vars

(***************************************************************************)
(* Leaderboard cache (LeaderboardCacheManager).  memory_cache is the       *)
(* Tier-1 dictionary of one long-lived manager: cache key -> data and      *)
(* expiry.  leaderboard_cache is the Tier-2 table every manager shares.    *)
(* A cache key "<type>_<limit>" is the pair <<type, limit>>.               *)
(***************************************************************************)
LeaderboardTypes == {"wins", "efficiency"}
LeaderboardLimits == {1, 3}

cache_key(leaderboard_type, limit) == <<leaderboard_type, limit>>

\* the orderings of S by ascending rank; equal ranks come in any order
Orderings(S, rank) ==
    {seq \in [1 .. Cardinality(S) -> S] :
        /\ \A i, j \in DOMAIN seq : i # j => seq[i] # seq[j]
        /\ \A i, j \in DOMAIN seq : i < j => rank[seq[i]] <= rank[seq[j]]}

Head_(seq, limit) == [i \in 1 .. Min(limit, Len(seq)) |-> seq[i]]

_get_total_games(db, player_id) ==
    Cardinality({gp \in db.game_players : gp.player_id = player_id})

\* round(efficiency, 2) in hundredths, halves to even
Round2(e) ==
    LET q == (100 * e.num) \div e.den
        r == (100 * e.num) % e.den
    IN  IF 2 * r < e.den THEN q
        ELSE IF 2 * r > e.den THEN q + 1
        ELSE IF q % 2 = 0 THEN q ELSE q + 1

\* the wins query without its filter on total_wins
_compute_wins_leaderboard_Unfiltered(db, limit) ==
    LET rows == DOMAIN db.players
        desc == [p \in rows |-> 0 - db.players[p].total_wins]
    IN  {[i \in DOMAIN Head_(seq, limit) |->
             [id |-> seq[i], wins |-> db.players[seq[i]].total_wins,
              total_games |-> _get_total_games(db, seq[i]), efficiency |-> 0]] :
         seq \in Orderings(rows, desc)}

\* every list the wins query may return: rows with equal wins come in any
\* order
_compute_wins_leaderboard(db, limit) ==
    LET rows == {p \in DOMAIN db.players : db.players[p].total_wins > 0}
        desc == [p \in rows |-> 0 - db.players[p].total_wins]
    IN  {[i \in DOMAIN Head_(seq, limit) |->
             [id |-> seq[i], wins |-> db.players[seq[i]].total_wins,
              total_games |-> _get_total_games(db, seq[i]), efficiency |-> 0]] :
         seq \in Orderings(rows, desc)}

_compute_efficiency_leaderboard(db, limit) ==
    LET rows == {p \in DOMAIN db.players :
                    /\ db.players[p].efficiency # NoEfficiency
                    /\ db.players[p].total_wins > 0}
        less(a, b) == db.players[a].efficiency.num * db.players[b].efficiency.den
                      < db.players[b].efficiency.num * db.players[a].efficiency.den
        asc == [p \in rows |-> Cardinality({q \in rows : less(q, p)})]
    IN  {[i \in DOMAIN Head_(seq, limit) |->
             [id |-> seq[i], wins |-> db.players[seq[i]].total_wins,
              total_games |-> 0, efficiency |-> Round2(db.players[seq[i]].efficiency)]] :
         seq \in Orderings(rows, asc)}

_compute_default_leaderboard(db, leaderboard_type, limit) ==
    IF leaderboard_type = "wins" THEN _compute_wins_leaderboard(db, limit)
    ELSE _compute_efficiency_leaderboard(db, limit)

Without(cache, keys) == [k \in DOMAIN cache \ keys |-> cache[k]]

\* Tier 1 answers unless the key is absent or its entry has expired
MemoryHit(key) == key \in DOMAIN memory_cache /\ ~(memory_cache[key].ttl < now)

\* _get_from_memory_cache drops an expired entry on the way
AfterMemoryLookup(key) ==
    IF key \in DOMAIN memory_cache /\ memory_cache[key].ttl < now
    THEN Without(memory_cache, {key})
    ELSE memory_cache

\* the store without its eviction
_store_in_memory_cache_Unbounded(mc, key, data) ==
    [k \in DOMAIN mc \cup {key} |->
        IF k = key THEN [data |-> data, ttl |-> now + MemoryTtl] ELSE mc[k]]

_store_in_memory_cache(mc, key, data) ==
    LET stored == [k \in DOMAIN mc \cup {key} |->
                      IF k = key THEN [data |-> data, ttl |-> now + MemoryTtl]
                      ELSE mc[k]]
        earliest == {k \in DOMAIN stored :
                        \A o \in DOMAIN stored : stored[k].ttl <= stored[o].ttl}
        \* min() takes the first of equal expiries in dictionary order, where
        \* a key that was just added comes last
        oldest_key == CHOOSE k \in earliest : k # key \/ earliest = {key}
    IN  IF Cardinality(DOMAIN stored) > MemoryCacheSize
        THEN Without(stored, {oldest_key})
        ELSE stored

\* the row answers whatever its expiry
DatabaseHit_Any(key) == key \in DOMAIN leaderboard_cache

DatabaseHit(key) ==
    key \in DOMAIN leaderboard_cache /\ leaderboard_cache[key].expires_at > now

_store_in_database_cache(lc, key, data) ==
    [k \in DOMAIN lc \cup {key} |->
        IF k = key THEN [data |-> data, expires_at |-> now + DatabaseTtl] ELSE lc[k]]

ReadResult(key, data, tier) ==
    [key |-> key, data |-> data, tier |-> tier, counters |-> players]

GetLeaderboard(leaderboard_type, limit) ==
    LET key == cache_key(leaderboard_type, limit)
        db == Database(games, game_players, moves, players, leaderboard_cache)
    IN  /\ IF MemoryHit(key)
           THEN /\ read_result' = ReadResult(key, memory_cache[key].data, 1)
                /\ UNCHANGED <<memory_cache, leaderboard_cache>>
           ELSE IF DatabaseHit(key)
           THEN /\ read_result' = ReadResult(key, leaderboard_cache[key].data, 2)
                /\ memory_cache' = _store_in_memory_cache(AfterMemoryLookup(key), key,
                                                          leaderboard_cache[key].data)
                /\ UNCHANGED leaderboard_cache
           ELSE \E fresh_data \in _compute_default_leaderboard(db, leaderboard_type, limit) :
                /\ read_result' = ReadResult(key, fresh_data, 3)
                /\ leaderboard_cache' =
                       _store_in_database_cache(leaderboard_cache, key, fresh_data)
                /\ memory_cache' = _store_in_memory_cache(AfterMemoryLookup(key), key,
                                                          fresh_data)
        /\ UNCHANGED <<now, players, mmVars, gameVars, reconcile, rating_call, integrity_report, tier1, join_call, error_log, response>>

\* an invalidation that leaves the table alone
InvalidateCache_TierOneOnly(leaderboard_type) ==
    /\ memory_cache' = Without(memory_cache,
                               {k \in DOMAIN memory_cache :
                                   leaderboard_type # "" => k[1] = leaderboard_type})
    /\ UNCHANGED <<now, players, mmVars, gameVars, leaderboard_cache, read_result,
                   reconcile, rating_call, integrity_report, tier1, join_call,
                   error_log, response>>

\* invalidate_cache on the long-lived manager; "" stands for no type
InvalidateCache(leaderboard_type) ==
    /\ memory_cache' = Without(memory_cache,
                               {k \in DOMAIN memory_cache :
                                   leaderboard_type # "" => k[1] = leaderboard_type})
    /\ leaderboard_cache' = DeleteCacheRows(leaderboard_cache, leaderboard_type)
    /\ UNCHANGED <<now, players, mmVars, gameVars, read_result, reconcile, rating_call, integrity_report, tier1, join_call,
                   error_log, response>>

CacheTick ==
    /\ now < ClockStep + MaxCacheTicks * CacheClockStep
    /\ now' = now + CacheClockStep
    /\ UNCHANGED <<players, mmVars, gameVars, cacheVars, reconcile, rating_call, integrity_report, tier1, join_call, error_log,
                   response>>

\* the game of GameStarted one move before player 1 completes the top row
GameNearEnd ==
    Played(GameStarted, <<<<1, 1, 0, 0>>, <<1, 2, 1, 0>>, <<1, 1, 0, 1>>, <<1, 2, 1, 1>>>>)

InitCache ==
    /\ InitService
    /\ InitDatabase(GameNearEnd)

NextCache ==
    \/ \E player_id \in PlayerIds, row \in 0 .. MinGridSize - 1,
          col \in 0 .. MinGridSize - 1, sql_ok \in BOOLEAN :
            MakeMove(1, player_id, row, col, sql_ok)
    \/ \E leaderboard_type \in LeaderboardTypes, limit \in LeaderboardLimits :
            GetLeaderboard(leaderboard_type, limit)
    \/ \E leaderboard_type \in LeaderboardTypes \cup {""} :
            InvalidateCache(leaderboard_type)
    \/ CacheTick

SpecCache == InitCache /\ [][NextCache]_vars

(***************************************************************************)
(* Creating and joining games through the API (api/games.py).  The         *)
(* endpoints are plain functions, so each request runs in a thread of its  *)
(* own with a session of its own.  join_game reads, then writes and        *)
(* commits; its SELECT ... FOR UPDATE takes no lock on SQLite, the         *)
(* database the engine is set up for, so another request may commit        *)
(* between the two.                                                        *)
(***************************************************************************)
CreateGame(creator_id, grid_size) ==
    LET created == create_game(games, game_players, players, creator_id, grid_size)
    IN  /\ Len(games) < MaxGames
        /\ games' = created.games
        /\ game_players' = created.game_players
        /\ response' = Response("create_game", created.raised = "", None,
                                created.raised)
        /\ UNCHANGED <<now, players, mmVars, moves, cacheVars, reconcile,
                       rating_call, integrity_report, tier1, join_call, error_log>>

\* join_game up to its last test
JoinValidate(t, game_id, player_id) ==
    LET checked == join_game(games, game_players, players, game_id, player_id)
    IN  /\ join_call[t].pc = "idle"
        /\ IF checked.raised # ""
           THEN /\ response' = Response("join_game", FALSE, None, checked.raised)
                /\ UNCHANGED join_call
           ELSE /\ join_call' = [join_call EXCEPT ![t] =
                                   [pc |-> "validated", game_id |-> game_id,
                                    player_id |-> player_id]]
                /\ UNCHANGED response
        /\ UNCHANGED <<now, players, mmVars, gameVars, cacheVars, reconcile,
                       rating_call, integrity_report, tier1, error_log>>

\* the rest of join_game: the new game_players row, the game's status and
\* turn, the commit.  The row's primary key is (game_id, player_id).
JoinCommit(t) ==
    LET game_id == join_call[t].game_id
        player_id == join_call[t].player_id
        first_player == CHOOSE gp \in game_players :
                            gp.game_id = game_id /\ gp.player_order = 1
    IN  /\ join_call[t].pc = "validated"
        /\ join_call' = [join_call EXCEPT ![t] = NoJoin]
        /\ IF \E gp \in game_players : gp.game_id = game_id /\ gp.player_id = player_id
           THEN /\ response' = Response("join_game", FALSE, None, "IntegrityError")
                /\ UNCHANGED <<games, game_players>>
           ELSE /\ game_players' = game_players \cup
                                     {[game_id |-> game_id, player_id |-> player_id,
                                       player_order |-> 2]}
                /\ games' = [games EXCEPT
                               ![game_id].status = "active",
                               ![game_id].current_turn = first_player.player_id]
                /\ response' = Response("join_game", TRUE, None, "")
        /\ UNCHANGED <<now, players, mmVars, moves, cacheVars, reconcile,
                       rating_call, integrity_report, tier1, error_log>>

\* the cell that completes the top row of GameNearEnd
LobbyPositions == {<<0, MinGridSize - 1>>}

\* a registered player and an id without a players row
LobbyCreators == {1} \cup UnknownIds

InitLobby ==
    /\ InitService
    /\ \E db \in {EmptyDatabase, GameNearEnd} : InitDatabase(db)

NextLobby ==
    \/ \E creator_id \in LobbyCreators, grid_size \in {MinGridSize - 1, MinGridSize} :
            CreateGame(creator_id, grid_size)
    \/ \E t \in Threads, game_id \in 1 .. MaxGames + 1, player_id \in PlayerIds :
            JoinValidate(t, game_id, player_id)
    \/ \E t \in Threads : JoinCommit(t)
    \/ \E player_id \in PlayerIds, pos \in LobbyPositions, sql_ok \in BOOLEAN :
            MakeMove(1, player_id, pos[1], pos[2], sql_ok)

SpecLobby == InitLobby /\ [][NextLobby]_vars

(***************************************************************************)
(* The leaderboard the API serves (PlayerService.get_leaderboard): the     *)
(* same two rankings as the Tier-3 computation, read from the games and    *)
(* moves tables instead of the players' counters.                          *)
(***************************************************************************)
LeaderboardTop == 3

GamesWon(db, player_id) ==
    {g \in DOMAIN db.games : db.games[g].winner_id = player_id}

\* the winner's moves in the games the player won
WinMoves(db, player_id) ==
    {i \in DOMAIN db.moves : /\ db.moves[i].player_id = player_id
                             /\ db.moves[i].game_id \in GamesWon(db, player_id)}

\* every list the query may return: rows of equal rank come in any order
get_leaderboard(db, sort_by) ==
    IF sort_by = "wins"
    THEN LET rows == {p \in DOMAIN db.players : Cardinality(GamesWon(db, p)) > 0}
             desc == [p \in rows |-> 0 - Cardinality(GamesWon(db, p))]
             total_games(p) ==
                 Cardinality({gp \in db.game_players :
                                 /\ gp.player_id = p
                                 /\ db.games[gp.game_id].status = "completed"})
         IN  {[i \in DOMAIN Head_(seq, LeaderboardTop) |->
                  [id |-> seq[i], wins |-> Cardinality(GamesWon(db, seq[i])),
                   total_games |-> total_games(seq[i]), efficiency |-> None]] :
              seq \in Orderings(rows, desc)}
    ELSE LET rows == {p \in DOMAIN db.players : WinMoves(db, p) # {}}
             avg(p) == [num |-> Cardinality(WinMoves(db, p)),
                        den |-> Cardinality(GamesWon(db, p))]
             less(a, b) == avg(a).num * avg(b).den < avg(b).num * avg(a).den
             asc == [p \in rows |-> Cardinality({q \in rows : less(q, p)})]
         IN  {[i \in DOMAIN Head_(seq, LeaderboardTop) |->
                  [id |-> seq[i], wins |-> Cardinality(GamesWon(db, seq[i])),
                   total_games |-> Cardinality(GamesWon(db, seq[i])),
                   efficiency |-> Round2(avg(seq[i]))]] :
              seq \in Orderings(rows, asc)}

\* GET /leaderboard; tier 0: the answer does not come through the cache
PlayerLeaderboard(sort_by) ==
    LET db == Database(games, game_players, moves, players, leaderboard_cache)
    IN  /\ \E leaderboard \in get_leaderboard(db, sort_by) :
               read_result' = ReadResult(<<sort_by, LeaderboardTop>>, leaderboard, 0)
        /\ UNCHANGED <<now, players, mmVars, gameVars, leaderboard_cache,
                       memory_cache, reconcile, rating_call, integrity_report,
                       tier1, join_call, error_log, response>>

\* a 3x3 game added to db that creator_id created and player_id joined
StartedGame(db, creator_id, player_id) ==
    LET created == create_game(db.games, db.game_players, db.players, creator_id,
                               MinGridSize)
        joined == join_game(created.games, created.game_players, db.players,
                            created.id, player_id)
    IN  [db EXCEPT !.games = joined.games, !.game_players = joined.game_players]

\* player 1 has won game 1 with three moves and player 2 game 2 with four;
\* game 3 is one move before player 1 completes the top row
LeaderboardGames ==
    LET first == Played(StartedGame(EmptyDatabase, 1, 2),
                        <<<<1, 1, 0, 0>>, <<1, 2, 1, 0>>, <<1, 1, 0, 1>>,
                          <<1, 2, 1, 1>>, <<1, 1, 0, 2>>>>)
        second == Played(StartedGame(first, 2, 3),
                         <<<<2, 2, 0, 0>>, <<2, 3, 1, 0>>, <<2, 2, 0, 1>>,
                           <<2, 3, 1, 1>>, <<2, 2, 2, 2>>, <<2, 3, 2, 0>>,
                           <<2, 2, 0, 2>>>>)
    IN  Played(StartedGame(second, 1, 3),
               <<<<3, 1, 0, 0>>, <<3, 3, 1, 0>>, <<3, 1, 0, 1>>, <<3, 3, 1, 1>>>>)

\* the cell that completes the top row and one that does not
BoardPositions == {<<0, MinGridSize - 1>>, <<MinGridSize - 1, MinGridSize - 1>>}

InitBoard ==
    /\ InitService
    /\ \E db \in {EmptyDatabase, LeaderboardGames} : InitDatabase(db)

NextBoard ==
    \/ \E player_id \in PlayerIds, pos \in BoardPositions, sql_ok \in BOOLEAN :
            MakeMove(Len(games), player_id, pos[1], pos[2], sql_ok)
    \/ \E leaderboard_type \in LeaderboardTypes, limit \in LeaderboardLimits :
            GetLeaderboard(leaderboard_type, limit)
    \/ \E sort_by \in LeaderboardTypes : PlayerLeaderboard(sort_by)
    \/ InvalidateCache("")

SpecBoard == InitBoard /\ [][NextBoard]_vars

(***************************************************************************)
(* The two cache tiers over a longer time: a manager that has served the   *)
(* wins leaderboard for many limits, entries that expire in either tier,   *)
(* and the eviction of _store_in_memory_cache.                             *)
(***************************************************************************)
\* a key read before and two that are new
TierKeys ==
    {cache_key("wins", 1), cache_key("wins", MemoryCacheSize), cache_key("efficiency", 1)}

\* the limits read before, one per second from second 1 on
WarmLimits == 1 .. MemoryCacheSize - 1

WarmData(limit) == CHOOSE data \in _compute_wins_leaderboard(LeaderboardGames, limit) : TRUE

\* Tier 1 and Tier 2 after those reads
WarmMemoryCache ==
    [k \in {cache_key("wins", limit) : limit \in WarmLimits} |->
        [data |-> WarmData(k[2]), ttl |-> k[2] + MemoryTtl]]

WarmDatabaseCache ==
    [k \in {cache_key("wins", limit) : limit \in WarmLimits} |->
        [data |-> WarmData(k[2]), expires_at |-> k[2] + DatabaseTtl]]

ExpiryTick ==
    /\ now < ClockStep + MaxExpiryTicks * ExpiryClockStep
    /\ now' = now + ExpiryClockStep
    /\ UNCHANGED <<players, mmVars, gameVars, cacheVars, reconcile, rating_call,
                   integrity_report, tier1, join_call, error_log, response>>

\* the manager that made the reads, or one built after them
InitTiers ==
    /\ InitProcess
    /\ player_ratings = StoredRatingRows
    /\ memory_cache \in {<< >>, WarmMemoryCache}
    /\ InitDatabase([LeaderboardGames EXCEPT !.leaderboard_cache = WarmDatabaseCache])

NextTiers ==
    \/ \E key \in TierKeys : GetLeaderboard(key[1], key[2])
    \/ \E leaderboard_type \in LeaderboardTypes \cup {""} :
            InvalidateCache(leaderboard_type)
    \/ \E sql_ok \in BOOLEAN :
            MakeMove(Len(games), 1, 0, MinGridSize - 1, sql_ok)
    \/ ExpiryTick

SpecTiers == InitTiers /\ [][NextTiers]_vars

(***************************************************************************)
(* Tier 1 under threads.  Several request threads call one manager; a      *)
(* thread may be suspended between any two dictionary operations.  An      *)
(* entry's data is the time at which it was stored.                        *)
(***************************************************************************)
ThreadKeys == {cache_key(leaderboard_type, 3) : leaderboard_type \in LeaderboardTypes}

Advance(t, pc) == [tier1 EXCEPT !.thread[t].pc = pc]

Raise(t, exc) ==
    [tier1 EXCEPT !.thread[t] = [IdleThread EXCEPT !.raised = exc]]

Return(t, data, stale) ==
    [tier1 EXCEPT !.thread[t] = [IdleThread EXCEPT !.returned = data,
                                                   !.stale = stale]]

ThreadFrame ==
    UNCHANGED <<now, players, mmVars, gameVars, leaderboard_cache, memory_cache,
                read_result, reconcile, rating_call, integrity_report,
                join_call, error_log, response>>

\* _get_from_memory_cache: the call and its first test
CallGet(t, key) ==
    /\ tier1.thread[t].pc = "idle"
    /\ tier1' = IF key \notin DOMAIN tier1.memory_cache
                THEN Return(t, None, FALSE)
                ELSE [tier1 EXCEPT !.thread[t] =
                        [IdleThread EXCEPT !.pc = "get_has_ttl", !.cache_key = key]]
    /\ ThreadFrame

\* the rest of _get_from_memory_cache, one dictionary operation at a time
StepGet(t) ==
    LET key == tier1.thread[t].cache_key
        pc == tier1.thread[t].pc
    IN  /\ pc \in {"get_has_ttl", "get_read_ttl", "get_del_data", "get_del_ttl",
                   "get_return"}
        /\ tier1' =
             CASE pc = "get_has_ttl" ->
                    IF key \in DOMAIN tier1.cache_ttl
                    THEN Advance(t, "get_read_ttl") ELSE Advance(t, "get_return")
               [] pc = "get_read_ttl" ->
                    IF key \notin DOMAIN tier1.cache_ttl THEN Raise(t, "KeyError")
                    ELSE IF tier1.cache_ttl[key] < now
                    THEN Advance(t, "get_del_data") ELSE Advance(t, "get_return")
               [] pc = "get_del_data" ->
                    IF key \notin DOMAIN tier1.memory_cache THEN Raise(t, "KeyError")
                    ELSE [Advance(t, "get_del_ttl") EXCEPT
                            !.memory_cache = Without(tier1.memory_cache, {key})]
               [] pc = "get_del_ttl" ->
                    IF key \notin DOMAIN tier1.cache_ttl THEN Raise(t, "KeyError")
                    ELSE [Return(t, None, FALSE) EXCEPT
                            !.cache_ttl = Without(tier1.cache_ttl, {key})]
               [] pc = "get_return" ->
                    IF key \notin DOMAIN tier1.memory_cache THEN Raise(t, "KeyError")
                    ELSE Return(t, tier1.memory_cache[key],
                                /\ ~(/\ key \in DOMAIN tier1.cache_ttl
                                     /\ tier1.cache_ttl[key] >= now)
                                /\ tier1.memory_cache[key] + MemoryTtl < now)
        /\ ThreadFrame

\* _store_in_memory_cache: the call and its first assignment
CallStore(t, key) ==
    /\ tier1.thread[t].pc = "idle"
    /\ tier1' = [tier1 EXCEPT
                   !.memory_cache = [k \in DOMAIN tier1.memory_cache \cup {key} |->
                                       IF k = key THEN now ELSE tier1.memory_cache[k]],
                   !.thread[t] = [IdleThread EXCEPT !.pc = "store_ttl",
                                                    !.cache_key = key]]
    /\ ThreadFrame

\* the rest of _store_in_memory_cache
StepStore(t) ==
    LET key == tier1.thread[t].cache_key
        pc == tier1.thread[t].pc
        ttl == tier1.cache_ttl
    IN  /\ pc \in {"store_ttl", "store_len", "store_oldest", "store_del_data",
                   "store_del_ttl"}
        /\ CASE pc = "store_ttl" ->
                  tier1' = [Advance(t, "store_len") EXCEPT
                              !.cache_ttl = [k \in DOMAIN ttl \cup {key} |->
                                               IF k = key THEN now + MemoryTtl
                                               ELSE ttl[k]]]
             [] pc = "store_len" ->
                  tier1' = IF Cardinality(DOMAIN tier1.memory_cache) > MemoryCacheSize
                           THEN Advance(t, "store_oldest")
                           ELSE Return(t, None, FALSE)
             [] pc = "store_oldest" ->
                  IF DOMAIN ttl = {}
                  THEN tier1' = Raise(t, "ValueError")
                  ELSE \E oldest_key \in {k \in DOMAIN ttl :
                                            \A o \in DOMAIN ttl : ttl[k] <= ttl[o]} :
                          tier1' = [tier1 EXCEPT
                                      !.thread[t].pc = "store_del_data",
                                      !.thread[t].cache_key = oldest_key]
             [] pc = "store_del_data" ->
                  tier1' = IF key \notin DOMAIN tier1.memory_cache
                           THEN Raise(t, "KeyError")
                           ELSE [Advance(t, "store_del_ttl") EXCEPT
                                   !.memory_cache = Without(tier1.memory_cache, {key})]
             [] pc = "store_del_ttl" ->
                  tier1' = IF key \notin DOMAIN ttl THEN Raise(t, "KeyError")
                           ELSE [Return(t, None, FALSE) EXCEPT
                                   !.cache_ttl = Without(ttl, {key})]
        /\ ThreadFrame

Matching(keys, pattern) == {k \in keys : k[1] = pattern}

\* invalidate_cache: the call; with a type it starts to iterate over the
\* keys, without one it clears the data dictionary
CallInvalidate(t, leaderboard_type) ==
    /\ tier1.thread[t].pc = "idle"
    /\ tier1' = IF leaderboard_type # ""
                THEN [tier1 EXCEPT !.thread[t] =
                        [IdleThread EXCEPT !.pc = "inv_iterate",
                                           !.pattern = leaderboard_type,
                                           !.keys = DOMAIN tier1.memory_cache]]
                ELSE [tier1 EXCEPT !.memory_cache = << >>,
                                   !.thread[t] = [IdleThread EXCEPT !.pc = "clear_ttl"]]
    /\ ThreadFrame

\* the rest of invalidate_cache.  The iteration over the keys fails if the
\* dictionary has changed its size meanwhile; if other keys of the same number
\* are in it, any of the old and new keys may have been seen.
StepInvalidate(t) ==
    LET me == tier1.thread[t]
        pc == me.pc
        seen == IF DOMAIN tier1.memory_cache = me.keys THEN {me.keys}
                ELSE SUBSET (me.keys \cup DOMAIN tier1.memory_cache)
    IN  /\ pc \in {"inv_iterate", "inv_pop_data", "inv_pop_ttl", "clear_ttl", "inv_db"}
        /\ CASE pc = "inv_iterate" ->
                  /\ IF Cardinality(DOMAIN tier1.memory_cache) # Cardinality(me.keys)
                     THEN tier1' = Raise(t, "RuntimeError")
                     ELSE \E keys \in seen :
                            tier1' = [tier1 EXCEPT
                                        !.thread[t].keys = Matching(keys, me.pattern),
                                        !.thread[t].pc =
                                            IF Matching(keys, me.pattern) = {}
                                            THEN "inv_db" ELSE "inv_pop_data"]
                  /\ UNCHANGED leaderboard_cache
             [] pc = "inv_pop_data" ->
                  /\ \E key \in me.keys :
                        tier1' = [tier1 EXCEPT
                                    !.memory_cache = Without(tier1.memory_cache, {key}),
                                    !.thread[t].cache_key = key,
                                    !.thread[t].pc = "inv_pop_ttl"]
                  /\ UNCHANGED leaderboard_cache
             [] pc = "inv_pop_ttl" ->
                  /\ tier1' = [tier1 EXCEPT
                                 !.cache_ttl = Without(tier1.cache_ttl, {me.cache_key}),
                                 !.thread[t].keys = me.keys \ {me.cache_key},
                                 !.thread[t].pc = IF me.keys = {me.cache_key}
                                                  THEN "inv_db" ELSE "inv_pop_data"]
                  /\ UNCHANGED leaderboard_cache
             [] pc = "clear_ttl" ->
                  /\ tier1' = [Advance(t, "inv_db") EXCEPT !.cache_ttl = << >>]
                  /\ UNCHANGED leaderboard_cache
             [] pc = "inv_db" ->
                  /\ tier1' = Return(t, None, FALSE)
                  /\ leaderboard_cache' = DeleteCacheRows(leaderboard_cache, me.pattern)
        /\ UNCHANGED <<now, players, mmVars, gameVars, memory_cache, read_result,
                       reconcile, rating_call, integrity_report, join_call,
                       error_log, response>>

InitThreads ==
    /\ InitService
    /\ InitDatabase(EmptyDatabase)

NextThreads ==
    \/ \E t \in Threads, key \in ThreadKeys : CallGet(t, key)
    \/ \E t \in Threads : StepGet(t)
    \/ \E t \in Threads, key \in ThreadKeys : CallStore(t, key)
    \/ \E t \in Threads : StepStore(t)
    \/ \E t \in Threads, leaderboard_type \in LeaderboardTypes \cup {""} :
            CallInvalidate(t, leaderboard_type)
    \/ \E t \in Threads : StepInvalidate(t)
    \/ CacheTick

SpecThreads == InitThreads /\ [][NextThreads]_vars

(***************************************************************************)
(* Reconciliation (ConsistencyManager.reconcile_all_player_stats over      *)
(* PlayerStatsManager.recalculate_player_efficiency).                      *)
(***************************************************************************)
\* The query of recalculate_player_efficiency asks for
\* sum(count(moves.id)) grouped by game: an aggregate inside an aggregate,
\* which the database refuses, so the query raises for every player.
wins_data(db, player_id) == [raised |-> "OperationalError", rows |-> {}]

RECURSIVE SumMoves(_)
SumMoves(rows) ==
    IF rows = {} THEN 0
    ELSE LET row == CHOOSE r \in rows : TRUE
         IN  row.total_moves + SumMoves(rows \ {row})

\* a recalculation that adds to the stored counters
recalculate_player_efficiency_Adding(db, player_id) ==
    [raised |-> "",
     players |-> [db.players EXCEPT
                    ![player_id].total_wins = @ + 1,
                    ![player_id].total_win_moves = @ + 3,
                    ![player_id].efficiency =
                        [num |-> db.players[player_id].total_win_moves + 3,
                         den |-> db.players[player_id].total_wins + 1]]]

\* Result: the exception raised ("" for none) and the players table
recalculate_player_efficiency(db, player_id) ==
    LET query == wins_data(db, player_id)
        total_wins == Cardinality(query.rows)
        total_moves == SumMoves(query.rows)
        updated(row) == IF player_id \in DOMAIN db.players
                        THEN [db.players EXCEPT ![player_id] = row]
                        ELSE db.players
    IN  IF query.raised # ""
        THEN [raised |-> query.raised, players |-> db.players]
        ELSE IF query.rows = {}
        THEN [raised |-> "", players |-> updated(NoCounters)]
        ELSE [raised |-> "",
              players |-> updated([total_wins |-> total_wins,
                                   total_win_moves |-> total_moves,
                                   efficiency |-> [num |-> total_moves,
                                                   den |-> total_wins]])]

SameEfficiency(a, b) ==
    IF a = NoEfficiency \/ b = NoEfficiency THEN a = b
    ELSE a.num * b.den = b.num * a.den

\* the players of one page, in id order, each inside its own try block
RECURSIVE ReconcilePage(_, _, _)
ReconcilePage(db, player_ids, batch) ==
    IF player_ids = << >> THEN batch
    ELSE LET player_id == Head(player_ids)
             current == [db EXCEPT !.players = batch.players]
             old_efficiency == current.players[player_id].efficiency
             recalculated == recalculate_player_efficiency(current, player_id)
             new_efficiency == recalculated.players[player_id].efficiency
         IN  ReconcilePage(db, Tail(player_ids),
                 IF recalculated.raised # ""
                 THEN [batch EXCEPT !.batch_errors = @ + 1,
                                    !.logged = @ \cup
                                        {LogEntry("Failed to recalculate player", player_id),
                                         LogEntry("Error reconciling player", player_id)}]
                 ELSE [batch EXCEPT !.players = recalculated.players,
                                    !.batch_updated =
                                        IF SameEfficiency(old_efficiency, new_efficiency)
                                        THEN @ ELSE @ + 1])

\* the player ids the query with OFFSET and LIMIT returns
PlayerPage(pl, offset, batch_size) ==
    LET ids == Orderings(DOMAIN pl, [p \in DOMAIN pl |-> p])
        all == CHOOSE seq \in ids : TRUE
    IN  SubSeq(all, offset + 1, Min(offset + batch_size, Len(all)))

StartReconcile(batch_size) ==
    /\ ~reconcile.running
    /\ reconcile' = [running |-> TRUE, finished |-> FALSE, batch_size |-> batch_size,
                     offset |-> 0, updated_players |-> 0, errors |-> 0,
                     batches_processed |-> 0]
    /\ UNCHANGED <<now, players, mmVars, gameVars, cacheVars, rating_call, integrity_report, tier1, join_call, error_log,
                   response>>

\* a loop in which a failed commit ends the run
ReconcileBatch_Fatal(commit_ok) ==
    LET player_ids == PlayerPage(players, reconcile.offset, reconcile.batch_size)
    IN  /\ reconcile.running
        /\ reconcile' = [reconcile EXCEPT !.running = FALSE, !.finished = TRUE,
                                          !.errors = IF player_ids = << >> \/ commit_ok
                                                     THEN @ ELSE @ + 1]
        /\ UNCHANGED <<now, players, error_log, mmVars, gameVars, cacheVars, rating_call,
                       integrity_report, tier1, join_call, response>>

\* one turn of the while loop: a page, its players, the commit; a commit
\* that fails is answered with a rollback and the loop goes on
ReconcileBatch(commit_ok) ==
    LET db == Database(games, game_players, moves, players, leaderboard_cache)
        player_ids == PlayerPage(players, reconcile.offset, reconcile.batch_size)
        batch == ReconcilePage(db, player_ids,
                               [players |-> players, batch_updated |-> 0,
                                batch_errors |-> 0, logged |-> {}])
    IN  /\ reconcile.running
        /\ IF player_ids = << >>
           THEN /\ reconcile' = [reconcile EXCEPT !.running = FALSE, !.finished = TRUE]
                /\ UNCHANGED <<players, error_log>>
           ELSE IF commit_ok
           THEN /\ players' = batch.players
                /\ error_log' = error_log \cup batch.logged
                /\ reconcile' = [reconcile EXCEPT
                                   !.updated_players = @ + batch.batch_updated,
                                   !.errors = @ + batch.batch_errors,
                                   !.batches_processed = @ + 1,
                                   !.offset = @ + reconcile.batch_size]
           ELSE /\ players' = players
                /\ error_log' = error_log \cup batch.logged
                                    \cup {LogEntry("Error committing batch", reconcile.offset)}
                /\ reconcile' = [reconcile EXCEPT
                                   !.errors = @ + Len(player_ids),
                                   !.offset = @ + reconcile.batch_size]
        /\ UNCHANGED <<now, mmVars, gameVars, cacheVars, rating_call, integrity_report, tier1, join_call, response>>

(***************************************************************************)
(* Integrity checks (ConsistencyManager.validate_data_integrity).  Each    *)
(* check is a query; its rows come back as a set of issue records.         *)
(***************************************************************************)
MovesOf(db, game_id) ==
    {i \in DOMAIN db.moves : db.moves[i].game_id = game_id}

_check_orphaned_moves(db) ==
    {[move_id |-> i, game_id |-> db.moves[i].game_id,
      player_id |-> db.moves[i].player_id] :
        i \in {k \in DOMAIN db.moves :
                 \/ db.moves[k].game_id \notin DOMAIN db.games
                 \/ db.moves[k].player_id \notin DOMAIN db.players}}

_check_invalid_game_states(db) ==
    {[game_id |-> g, issue |-> "completed_game_no_winner",
      move_count |-> Cardinality(MovesOf(db, g))] :
        g \in {k \in DOMAIN db.games :
                 /\ db.games[k].status = "completed"
                 /\ db.games[k].winner_id = None
                 /\ Cardinality(MovesOf(db, k)) < FullBoardMoves}}

\* what _calculate_actual_efficiency returns for None
NoStats == [wins |-> 0, total_moves |-> 0, efficiency |-> NoEfficiency]

\* the player's won games that hold a move of the player, with the number
\* of those moves
_calculate_actual_efficiency(db, player_id) ==
    LET move_count(g) == Cardinality({i \in MovesOf(db, g) :
                                        db.moves[i].player_id = player_id})
        won == {g \in DOMAIN db.games : /\ db.games[g].winner_id = player_id
                                        /\ move_count(g) > 0}
        rows == {[game_id |-> g, total_moves |-> move_count(g)] : g \in won}
    IN  IF rows = {} THEN NoStats
        ELSE [wins |-> Cardinality(rows), total_moves |-> SumMoves(rows),
              efficiency |-> [num |-> SumMoves(rows), den |-> Cardinality(rows)]]

\* abs(stored_efficiency - actual_efficiency) > 0.1
EfficiencyApart(stored, actual) ==
    10 * Abs(stored.num * actual.den - actual.num * stored.den)
        > stored.den * actual.den

\* the sample of 100 players holds every player of the model
_check_efficiency_mismatches(db) ==
    LET players_with_efficiency ==
            {p \in DOMAIN db.players : /\ db.players[p].efficiency # NoEfficiency
                                       /\ db.players[p].total_wins > 0}
        mismatched ==
            {p \in players_with_efficiency :
                LET actual_stats == _calculate_actual_efficiency(db, p)
                IN  /\ actual_stats # NoStats
                    /\ \/ EfficiencyApart(db.players[p].efficiency,
                                          actual_stats.efficiency)
                       \/ db.players[p].total_wins # actual_stats.wins}
    IN  {[player_id |-> p,
          stored_efficiency |-> db.players[p].efficiency,
          actual_efficiency |-> _calculate_actual_efficiency(db, p).efficiency,
          stored_wins |-> db.players[p].total_wins,
          actual_wins |-> _calculate_actual_efficiency(db, p).wins] :
            p \in mismatched}

_check_missing_game_players(db) ==
    LET games_with_moves == {db.moves[i].game_id : i \in DOMAIN db.moves}
        unique_players(g) ==
            Cardinality({db.moves[i].player_id : i \in MovesOf(db, g)})
        registered(g) ==
            Cardinality({gp \in db.game_players : gp.game_id = g})
    IN  {[game_id |-> g, players_with_moves |-> unique_players(g),
          registered_players |-> registered(g)] :
            g \in {k \in games_with_moves : unique_players(k) # registered(k)}}

\* Result: the report and the tables as the call leaves them
validate_data_integrity_Repairing(db) ==
    LET issues == [orphaned_moves |-> _check_orphaned_moves(db),
                   invalid_game_states |-> _check_invalid_game_states(db),
                   efficiency_mismatches |-> _check_efficiency_mismatches(db),
                   missing_game_players |-> _check_missing_game_players(db)]
    IN  [report |-> [total_issues |-> Cardinality(issues.orphaned_moves)
                                      + Cardinality(issues.invalid_game_states)
                                      + Cardinality(issues.efficiency_mismatches)
                                      + Cardinality(issues.missing_game_players),
                     issues |-> issues],
         db |-> [db EXCEPT !.players =
                    [p \in DOMAIN db.players |->
                        IF \E m \in issues.efficiency_mismatches : m.player_id = p
                        THEN [db.players[p] EXCEPT
                                !.efficiency =
                                    _calculate_actual_efficiency(db, p).efficiency]
                        ELSE db.players[p]]]]

validate_data_integrity(db) ==
    LET issues == [orphaned_moves |-> _check_orphaned_moves(db),
                   invalid_game_states |-> _check_invalid_game_states(db),
                   efficiency_mismatches |-> _check_efficiency_mismatches(db),
                   missing_game_players |-> _check_missing_game_players(db)]
    IN  [report |-> [total_issues |-> Cardinality(issues.orphaned_moves)
                                      + Cardinality(issues.invalid_game_states)
                                      + Cardinality(issues.efficiency_mismatches)
                                      + Cardinality(issues.missing_game_players),
                     issues |-> issues],
         db |-> db]

ValidateDataIntegrity ==
    LET result == validate_data_integrity(
                      Database(games, game_players, moves, players,
                               leaderboard_cache))
    IN  /\ integrity_report' = result.report
        /\ games' = result.db.games
        /\ game_players' = result.db.game_players
        /\ moves' = result.db.moves
        /\ players' = result.db.players
        /\ leaderboard_cache' = result.db.leaderboard_cache
        /\ UNCHANGED <<now, mmVars, memory_cache, read_result, reconcile,
                       rating_call, tier1, join_call, error_log, response>>

\* the game of GameNearEnd after player 1 has completed the top row
GameOver == Played(GameNearEnd, <<<<1, 1, 0, 2>>>>)

\* counters as a run may find them: untouched, as the real-time update
\* left them, as the history gives them, or damaged
CounterRows ==
    {NoCounters,
     GameOver.players[1],
     [total_wins |-> 1, total_win_moves |-> 3, efficiency |-> [num |-> 3, den |-> 1]],
     [total_wins |-> 3, total_win_moves |-> 7, efficiency |-> [num |-> 5, den |-> 2]]}

InitRecon ==
    /\ InitService
    /\ \E pl \in [PlayerIds -> CounterRows] :
          InitDatabase([GameOver EXCEPT !.players = pl])

NextRecon ==
    \/ \E batch_size \in 1 .. MaxBatchSize : StartReconcile(batch_size)
    \/ \E commit_ok \in BOOLEAN : ReconcileBatch(commit_ok)
    \/ ValidateDataIntegrity

SpecRecon == InitRecon /\ [][NextRecon]_vars

\* the loop of a run that has started keeps running until the run ends
SpecReconFair ==
    SpecRecon /\ WF_vars(\E commit_ok \in BOOLEAN : ReconcileBatch(commit_ok))

(***************************************************************************)
(* The maintenance jobs of scripts/background_jobs.py side by side:        *)
(* reconciliation, integrity validation and cache clean-up, over tables    *)
(* that hold finished games of two board sizes.                            *)
(***************************************************************************)
\* cleanup_expired_cache_entries where every expired row goes
cleanup_expired_cache_entries_Expired(lc, days_old) ==
    LET deleted == {k \in DOMAIN lc : lc[k].expires_at < now}
    IN  [deleted_count |-> Cardinality(deleted),
         leaderboard_cache |-> [k \in DOMAIN lc \ deleted |-> lc[k]]]

\* Result: the number of rows deleted and the table after the commit
cleanup_expired_cache_entries(lc, days_old) ==
    LET cutoff_date == now - days_old * SecondsPerDay
        deleted == {k \in DOMAIN lc : lc[k].expires_at < cutoff_date}
    IN  [deleted_count |-> Cardinality(deleted),
         leaderboard_cache |-> [k \in DOMAIN lc \ deleted |-> lc[k]]]

\* the job; the count it returns is kept in the answer's third field
CleanupCache(days_old) ==
    LET result == cleanup_expired_cache_entries(leaderboard_cache, days_old)
    IN  /\ leaderboard_cache' = result.leaderboard_cache
        /\ response' = Response("cleanup", TRUE, result.deleted_count, "")
        /\ UNCHANGED <<now, players, mmVars, gameVars, memory_cache, read_result,
                       reconcile, rating_call, integrity_report, tier1, join_call,
                       error_log>>

RetentionTick ==
    /\ now < ClockStep + MaxRetentionTicks * RetentionClockStep
    /\ now' = now + RetentionClockStep
    /\ UNCHANGED <<players, mmVars, gameVars, cacheVars, reconcile, rating_call,
                   integrity_report, tier1, join_call, error_log, response>>

\* a game of the given size added to db that creator_id created and
\* player_id joined
StartedGameOfSize(db, creator_id, player_id, grid_size) ==
    LET created == create_game(db.games, db.game_players, db.players, creator_id,
                               grid_size)
        joined == join_game(created.games, created.game_players, db.players,
                            created.id, player_id)
    IN  [db EXCEPT !.games = joined.games, !.game_players = joined.game_players]

\* the moves of a drawn game on a 3x3 board and on a 4x4 board
DrawnMoves3(g, a, b) ==
    <<<<g, a, 0, 0>>, <<g, b, 0, 1>>, <<g, a, 0, 2>>, <<g, b, 1, 1>>, <<g, a, 1, 0>>,
      <<g, b, 1, 2>>, <<g, a, 2, 1>>, <<g, b, 2, 0>>, <<g, a, 2, 2>>>>

DrawnMoves4(g, a, b) ==
    <<<<g, a, 0, 0>>, <<g, b, 0, 2>>, <<g, a, 0, 1>>, <<g, b, 0, 3>>,
      <<g, a, 1, 2>>, <<g, b, 1, 0>>, <<g, a, 1, 3>>, <<g, b, 1, 1>>,
      <<g, a, 2, 0>>, <<g, b, 2, 2>>, <<g, a, 2, 1>>, <<g, b, 2, 3>>,
      <<g, a, 3, 2>>, <<g, b, 3, 0>>, <<g, a, 3, 3>>, <<g, b, 3, 1>>>>

\* a game played to a draw on each board
DrawnGames ==
    LET first == Played(StartedGameOfSize(EmptyDatabase, 1, 2, MinGridSize),
                        DrawnMoves3(1, 1, 2))
    IN  Played(StartedGameOfSize(first, 2, 3, MinGridSize + 1), DrawnMoves4(2, 2, 3))

\* the same two games broken off after 4 and after 10 moves, their rows set
\* to completed by hand: the damage the check is there to find
BrokenGames ==
    LET first == Played(StartedGameOfSize(EmptyDatabase, 1, 2, MinGridSize),
                        SubSeq(DrawnMoves3(1, 1, 2), 1, 4))
        second == Played(StartedGameOfSize(first, 2, 3, MinGridSize + 1),
                         SubSeq(DrawnMoves4(2, 2, 3), 1, 10))
    IN  [second EXCEPT !.games[1].status = "completed",
                       !.games[2].status = "completed"]

\* a won game whose winner has damaged counters
DamagedCounters ==
    [GameOver EXCEPT !.players[1] =
        [total_wins |-> 3, total_win_moves |-> 7, efficiency |-> [num |-> 5, den |-> 2]]]

JobDatabases == {DrawnGames, BrokenGames, DamagedCounters}

RetentionDays == {1, DefaultRetentionDays}

InitJobs ==
    /\ InitService
    /\ \E db \in JobDatabases : InitDatabase(db)

NextJobs ==
    \/ StartReconcile(MaxBatchSize)
    \/ ReconcileBatch(TRUE)
    \/ ValidateDataIntegrity
    \/ \E days_old \in RetentionDays : CleanupCache(days_old)
    \/ \E leaderboard_type \in LeaderboardTypes : GetLeaderboard(leaderboard_type, 1)
    \/ RetentionTick

SpecJobs == InitJobs /\ [][NextJobs]_vars

(***************************************************************************)
(* A reconciliation run while a game is being finished.  The run has its   *)
(* own session; a page of it reads the tables as the moves committed so    *)
(* far have left them.                                                     *)
(***************************************************************************)
InitInterleaved ==
    /\ InitService
    /\ InitDatabase(GameNearEnd)

NextInterleaved ==
    \/ \E player_id \in PlayerIds, pos \in MovePositions, sql_ok \in BOOLEAN :
            MakeMove(1, player_id, pos[1], pos[2], sql_ok)
    \/ \E batch_size \in 1 .. MaxBatchSize : StartReconcile(batch_size)
    \/ ReconcileBatch(TRUE)

SpecInterleaved == InitInterleaved /\ [][NextInterleaved]_vars

(***************************************************************************)
(* Skill rating engine (SkillCalculator).  Floats are kept as scaled       *)
(* integers: expected scores in millionths, the grid modifier in tenths,   *)
(* a rating change in ten-millionths of a point.                           *)
(***************************************************************************)
ScoreUnit == 1000000
ChangeUnit == 10000000

\* 1.0 / (1.0 + math.pow(10, d / 400.0)) in millionths, for the rating
\* differences d = rating_b - rating_a that occur between the rows of
\* RatingRows
ExpectedScoreTable ==
    (0 - 1410 :> 999702) @@ (0 - 1405 :> 999693) @@ (0 - 1400 :> 999684) @@
    (0 - 1395 :> 999675) @@ (0 - 1200 :> 999001) @@ (0 - 1195 :> 998972) @@
    (0 - 1100 :> 998225) @@ (0 - 1095 :> 998173) @@ (0 - 310 :> 856252) @@
    (0 - 300 :> 849020) @@ (0 - 210 :> 770097) @@ (0 - 200 :> 759747) @@
    (0 - 100 :> 640065) @@ (0 - 10 :> 514387) @@ (0 - 5 :> 507195) @@
    (0 :> 500000) @@ (5 :> 492805) @@ (10 :> 485613) @@ (100 :> 359935) @@
    (200 :> 240253) @@ (210 :> 229903) @@ (300 :> 150980) @@
    (310 :> 143748) @@ (1095 :> 1827) @@ (1100 :> 1775) @@ (1195 :> 1028) @@
    (1200 :> 999) @@ (1395 :> 325) @@ (1400 :> 316) @@ (1405 :> 307) @@
    (1410 :> 298)

\* the same for the differences that occur while two players who start
\* from the default rating play each other on boards of size 3 and 4
SequenceScoreTable ==
    (0 - 135 :> 685060) @@ (0 - 131 :> 680071) @@ (0 - 129 :> 677561) @@ (0 - 125 :> 672510) @@
    (0 - 123 :> 669969) @@ (0 - 119 :> 664858) @@ (0 - 117 :> 662288) @@ (0 - 113 :> 657119) @@
    (0 - 106 :> 647983) @@ (0 - 102 :> 642713) @@ (0 - 100 :> 640065) @@ (0 - 94 :> 632070) @@
    (0 - 88 :> 624002) @@ (0 - 85 :> 619941) @@ (0 - 79 :> 611771) @@ (0 - 77 :> 609033) @@
    (0 - 75 :> 606288) @@ (0 - 73 :> 603536) @@ (0 - 71 :> 600778) @@ (0 - 69 :> 598014) @@
    (0 - 67 :> 595243) @@ (0 - 65 :> 592466) @@ (0 - 63 :> 589684) @@ (0 - 61 :> 586895) @@
    (0 - 59 :> 584101) @@ (0 - 57 :> 581301) @@ (0 - 55 :> 578497) @@ (0 - 53 :> 575687) @@
    (0 - 51 :> 572872) @@ (0 - 50 :> 571463) @@ (0 - 49 :> 570053) @@ (0 - 45 :> 564400) @@
    (0 - 44 :> 562985) @@ (0 - 43 :> 561568) @@ (0 - 42 :> 560150) @@ (0 - 40 :> 557312) @@
    (0 - 39 :> 555891) @@ (0 - 38 :> 554469) @@ (0 - 36 :> 551624) @@ (0 - 34 :> 548774) @@
    (0 - 32 :> 545922) @@ (0 - 30 :> 543066) @@ (0 - 28 :> 540208) @@ (0 - 27 :> 538778) @@
    (0 - 26 :> 537347) @@ (0 - 24 :> 534484) @@ (0 - 22 :> 531618) @@ (0 - 21 :> 530185) @@
    (0 - 19 :> 527316) @@ (0 - 17 :> 524445) @@ (0 - 15 :> 521573) @@ (0 - 14 :> 520137) @@
    (0 - 13 :> 518700) @@ (0 - 11 :> 515825) @@ (0 - 9 :> 512949) @@ (0 - 7 :> 510072) @@
    (0 - 5 :> 507195) @@ (0 - 3 :> 504317) @@ (0 - 1 :> 501439) @@ (0 :> 500000) @@
    (1 :> 498561) @@ (3 :> 495683) @@ (5 :> 492805) @@ (7 :> 489928) @@
    (9 :> 487051) @@ (11 :> 484175) @@ (13 :> 481300) @@ (14 :> 479863) @@
    (15 :> 478427) @@ (17 :> 475555) @@ (19 :> 472684) @@ (21 :> 469815) @@
    (22 :> 468382) @@ (24 :> 465516) @@ (26 :> 462653) @@ (27 :> 461222) @@
    (28 :> 459792) @@ (30 :> 456934) @@ (32 :> 454078) @@ (34 :> 451226) @@
    (36 :> 448376) @@ (38 :> 445531) @@ (39 :> 444109) @@ (40 :> 442688) @@
    (42 :> 439850) @@ (43 :> 438432) @@ (44 :> 437015) @@ (45 :> 435600) @@
    (49 :> 429947) @@ (50 :> 428537) @@ (51 :> 427128) @@ (53 :> 424313) @@
    (55 :> 421503) @@ (57 :> 418699) @@ (59 :> 415899) @@ (61 :> 413105) @@
    (63 :> 410316) @@ (65 :> 407534) @@ (67 :> 404757) @@ (69 :> 401986) @@
    (71 :> 399222) @@ (73 :> 396464) @@ (75 :> 393712) @@ (77 :> 390967) @@
    (79 :> 388229) @@ (85 :> 380059) @@ (88 :> 375998) @@ (94 :> 367930) @@
    (100 :> 359935) @@ (102 :> 357287) @@ (106 :> 352017) @@ (113 :> 342881) @@
    (117 :> 337712) @@ (119 :> 335142) @@ (123 :> 330031) @@ (125 :> 327490) @@
    (129 :> 322439) @@ (131 :> 319929) @@ (135 :> 314940)

_expected_score(rating_a, rating_b) ==
    (ExpectedScoreTable @@ SequenceScoreTable)[rating_b - rating_a]

_get_k_factor_Flat(games_played) == K_FACTOR_NEW

_get_k_factor(games_played) ==
    IF games_played < NewPlayerGames THEN K_FACTOR_NEW
    ELSE IF games_played < VeteranGames THEN K_FACTOR_INTERMEDIATE
    ELSE K_FACTOR_VETERAN

\* in tenths
_get_grid_size_modifier(grid_size) ==
    IF grid_size = 3 THEN 8
    ELSE IF grid_size = 4 THEN 10
    ELSE IF grid_size >= 5 THEN 12
    ELSE 8

\* max(-MAX_RATING_CHANGE, min(MAX_RATING_CHANGE, change))
ClampChange(change) ==
    IF change > MAX_RATING_CHANGE * ChangeUnit THEN MAX_RATING_CHANGE * ChangeUnit
    ELSE IF change < 0 - MAX_RATING_CHANGE * ChangeUnit
    THEN 0 - MAX_RATING_CHANGE * ChangeUnit
    ELSE change

\* int(rating + change): the sum is positive for the ratings of the model,
\* where int() rounds down
IntSum(rating, change) == rating + (change \div ChangeUnit)

FloorRating_None(rating) == rating

\* max(100, rating)
FloorRating(rating) == IF rating < MinRating THEN MinRating ELSE rating

\* Result: the two changes before rounding and the two new ratings
calculate_rating_change(winner_rating, loser_rating, winner_games, loser_games, grid_size) ==
    LET winner_expected == _expected_score(winner_rating, loser_rating)
        loser_expected == ScoreUnit - winner_expected
        winner_k == _get_k_factor(winner_games)
        loser_k == _get_k_factor(loser_games)
        grid_modifier == _get_grid_size_modifier(grid_size)
        winner_change == ClampChange(winner_k * grid_modifier
                                     * (ScoreUnit - winner_expected))
        loser_change == ClampChange(loser_k * grid_modifier * (0 - loser_expected))
    IN  [winner_expected |-> winner_expected,
         winner_change |-> winner_change,
         loser_change |-> loser_change,
         new_winner_rating |-> FloorRating(IntSum(winner_rating, winner_change)),
         new_loser_rating |-> FloorRating(IntSum(loser_rating, loser_change))]

\* the row with the peak overwritten by every new rating
_update_rating_record_PeakAlways(rating, new_overall_rating, grid_size, won) ==
    [overall_rating |-> new_overall_rating,
     grid_3x3_rating |-> rating.grid_3x3_rating,
     grid_4x4_rating |-> rating.grid_4x4_rating,
     grid_5x5_rating |-> rating.grid_5x5_rating,
     games_played |-> rating.games_played + 1,
     rating_deviation |-> rating.rating_deviation,
     peak_rating |-> new_overall_rating,
     current_win_streak |-> IF won THEN rating.current_win_streak + 1 ELSE 0,
     current_loss_streak |-> IF won THEN 0 ELSE rating.current_loss_streak + 1,
     best_win_streak |-> rating.best_win_streak]

\* the row with a win streak that a loss does not end
_update_rating_record_StreakKept(rating, new_overall_rating, grid_size, won) ==
    [overall_rating |-> new_overall_rating,
     grid_3x3_rating |-> rating.grid_3x3_rating,
     grid_4x4_rating |-> rating.grid_4x4_rating,
     grid_5x5_rating |-> rating.grid_5x5_rating,
     games_played |-> rating.games_played + 1,
     rating_deviation |-> rating.rating_deviation,
     peak_rating |-> IF new_overall_rating > rating.peak_rating
                     THEN new_overall_rating ELSE rating.peak_rating,
     current_win_streak |-> IF won THEN rating.current_win_streak + 1
                            ELSE rating.current_win_streak,
     current_loss_streak |-> IF won THEN 0 ELSE rating.current_loss_streak + 1,
     best_win_streak |-> IF won /\ rating.current_win_streak + 1
                                      > rating.best_win_streak
                         THEN rating.current_win_streak + 1
                         ELSE rating.best_win_streak]

\* the row after _update_rating_record; only boards of size 3, 4 and 5 have
\* a rating column of their own
_update_rating_record(rating, new_overall_rating, grid_size, won) ==
    LET rating_change == new_overall_rating - rating.overall_rating
        grid(old_grid_rating, size) ==
            IF grid_size = size THEN FloorRating(old_grid_rating + rating_change)
            ELSE old_grid_rating
        decayed == (rating.rating_deviation * 99) \div 100
    IN  [overall_rating |-> new_overall_rating,
         grid_3x3_rating |-> grid(rating.grid_3x3_rating, 3),
         grid_4x4_rating |-> grid(rating.grid_4x4_rating, 4),
         grid_5x5_rating |-> grid(rating.grid_5x5_rating, 5),
         games_played |-> rating.games_played + 1,
         rating_deviation |-> IF decayed < MIN_DEVIATION THEN MIN_DEVIATION
                              ELSE decayed,
         peak_rating |-> IF new_overall_rating > rating.peak_rating
                         THEN new_overall_rating ELSE rating.peak_rating,
         current_win_streak |-> IF won THEN rating.current_win_streak + 1 ELSE 0,
         current_loss_streak |-> IF won THEN 0 ELSE rating.current_loss_streak + 1,
         best_win_streak |-> IF won /\ rating.current_win_streak + 1
                                          > rating.best_win_streak
                             THEN rating.current_win_streak + 1
                             ELSE rating.best_win_streak]

\* the rating update for one concluded game: calculate_rating_change and
\* _update_rating_record for the winner and for the loser
ApplyRatingUpdate(winner_id, loser_id, grid_size) ==
    LET winner_rating == player_ratings[winner_id]
        loser_rating == player_ratings[loser_id]
        new == calculate_rating_change(winner_rating.overall_rating,
                                       loser_rating.overall_rating,
                                       winner_rating.games_played,
                                       loser_rating.games_played, grid_size)
    IN  /\ rating_call = NoRatingCall
        /\ winner_id # loser_id
        /\ player_ratings' =
               [player_ratings EXCEPT
                  ![winner_id] = _update_rating_record(winner_rating,
                                     new.new_winner_rating, grid_size, TRUE),
                  ![loser_id] = _update_rating_record(loser_rating,
                                     new.new_loser_rating, grid_size, FALSE)]
        /\ rating_call' = [winner_id |-> winner_id, loser_id |-> loser_id,
                           grid_size |-> grid_size,
                           winner_rating |-> winner_rating,
                           loser_rating |-> loser_rating,
                           result |-> new]
        /\ UNCHANGED <<now, players, player_queue, matchmaking_history, search_task,
                       active_searches, gameVars, cacheVars, reconcile,
                       integrity_report, tier1, join_call, error_log, response>>

\* rating rows before a game: new and experienced players, ratings at and
\* near the floor, deviations at and near the floor
RatingRows ==
    {PlayerRating(1200, 1200, 15, DEFAULT_DEVIATION, 0, 0, 0),
     PlayerRating(1300, 1300, 15, DEFAULT_DEVIATION, 2, 0, 2),
     PlayerRating(MinRating, MinRating, 0, DEFAULT_DEVIATION, 0, 3, 0),
     PlayerRating(105, MinRating, 20, 50300, 0, 1, 1),
     PlayerRating(1500, 1480, 99, MIN_DEVIATION, 4, 0, 6),
     PlayerRating(1510, 1510, 100, 60000, 0, 0, 9)}

RatedGridSizes == {3, 4, 5, 6}

InitRating ==
    /\ InitServiceState
    /\ player_ratings \in [PlayerIds -> RatingRows]
    /\ InitDatabase(EmptyDatabase)

NextRating ==
    \E winner_id \in PlayerIds, loser_id \in PlayerIds, grid_size \in RatedGridSizes :
        ApplyRatingUpdate(winner_id, loser_id, grid_size)

SpecRating == InitRating /\ [][NextRating]_vars

(***************************************************************************)
(* A run of rated games between two players whose rating rows start with   *)
(* the column defaults.                                                    *)
(***************************************************************************)
SequencePlayers == {1, 2}
SequenceGridSizes == {3, 4}

\* update_player_ratings_after_game for one more game of the run
RatedGame(winner_id, loser_id, grid_size) ==
    LET winner_rating == player_ratings[winner_id]
        loser_rating == player_ratings[loser_id]
        new == calculate_rating_change(winner_rating.overall_rating,
                                       loser_rating.overall_rating,
                                       winner_rating.games_played,
                                       loser_rating.games_played, grid_size)
    IN  /\ winner_id # loser_id
        /\ winner_rating.games_played < MaxRatedGames
        /\ loser_rating.games_played < MaxRatedGames
        /\ player_ratings' =
               [player_ratings EXCEPT
                  ![winner_id] = _update_rating_record(winner_rating,
                                     new.new_winner_rating, grid_size, TRUE),
                  ![loser_id] = _update_rating_record(loser_rating,
                                     new.new_loser_rating, grid_size, FALSE)]
        /\ rating_call' = [winner_id |-> winner_id, loser_id |-> loser_id,
                           grid_size |-> grid_size,
                           winner_rating |-> winner_rating,
                           loser_rating |-> loser_rating,
                           result |-> new]
        /\ UNCHANGED <<now, players, player_queue, matchmaking_history, search_task,
                       active_searches, gameVars, cacheVars, reconcile,
                       integrity_report, tier1, join_call, error_log, response>>

InitSequence ==
    /\ InitServiceState
    /\ player_ratings = [p \in PlayerIds |-> DefaultRatingRow]
    /\ InitDatabase(EmptyDatabase)

NextSequence ==
    \E winner_id \in SequencePlayers, loser_id \in SequencePlayers,
       grid_size \in SequenceGridSizes :
        RatedGame(winner_id, loser_id, grid_size)

SpecSequence == InitSequence /\ [][NextSequence]_vars

(***************************************************************************)
(* Properties of the matchmaking coordinator (specification Spec).         *)
(***************************************************************************)
EntriesOf(player_id, status) ==
    {e \in DOMAIN player_queue : /\ player_queue[e].player_id = player_id
                                 /\ player_queue[e].status = status}

RecordsOf(player_id) ==
    {i \in DOMAIN matchmaking_history :
        player_id \in {matchmaking_history[i].player1_id,
                       matchmaking_history[i].player2_id}}

\* C1: no double claim.  Every Matched entry stems from exactly one claim:
\* each player has as many match records as Matched entries, no two records
\* share a game, and an entry that is still Searching (the loser of a race
\* included) still has its search process running.
C1_NoDoubleClaim ==
    /\ \A p \in AllIds :
         Cardinality(RecordsOf(p)) = Cardinality(EntriesOf(p, "matched"))
    /\ \A i, k \in DOMAIN matchmaking_history :
         i # k => matchmaking_history[i].game_id # matchmaking_history[k].game_id
    /\ \A e \in DOMAIN player_queue :
         player_queue[e].status = "searching" => search_task[e] = "scheduled"

\* a race was lost: a Searching entry with a running process next to a
\* Matched entry it would have chosen (in its queue class and range, score
\* above the threshold)
C1_Witness ==
    \E e, m \in DOMAIN player_queue :
        /\ player_queue[e].status = "searching"
        /\ search_task[e] = "scheduled"
        /\ player_queue[m].status = "matched"
        /\ e # m
        /\ InReach(e, m)
        /\ AboveThreshold(OpponentScore(e, m))
        /\ player_queue[m].player_id \in PlayerIds
        /\ player_queue[e].player_id \in PlayerIds

\* C2: a claim attempt is all-or-nothing.  The matchmaker is the only
\* creator of games here, so every game row belongs to a match record and
\* holds both players.
C2_AllOrNothing ==
    \A g \in DOMAIN games :
        /\ \E i \in DOMAIN matchmaking_history : matchmaking_history[i].game_id = g
        /\ Cardinality({gp \in game_players : gp.game_id = g}) = 2

\* C3: a queue entry changes only while it is Searching; a Matched,
\* Cancelled or TimedOut row is never changed or removed again.
C3_TerminalRowsFrozen ==
    [][/\ Len(player_queue') >= Len(player_queue)
       /\ \A e \in DOMAIN player_queue :
            player_queue[e].status # "searching"
                => player_queue'[e] = player_queue[e]]_vars

\* a claim and a timeout have taken effect
C3_Witness ==
    /\ \E e \in DOMAIN player_queue : player_queue[e].status = "matched"
    /\ \E e \in DOMAIN player_queue : player_queue[e].status = "timeout"

\* the two halves of C4: the state bound and the step of a join
C4_OneSearchingEntry ==
    \A p \in AllIds :
        /\ Cardinality(EntriesOf(p, "searching")) <= 1
        /\ Cardinality({e \in DOMAIN player_queue :
                          /\ player_queue[e].player_id = p
                          /\ search_task[e] = "scheduled"}) <= 1

C4_JoinStep ==
    /\ Len(player_queue') > Len(player_queue)
         => /\ Len(player_queue') = Len(player_queue) + 1
            /\ EntriesOf(player_queue'[Len(player_queue')].player_id, "searching") = {}
    /\ (/\ response' # response
        /\ response'.op = "join"
        /\ response'.ok
        /\ response'.queue_id <= Len(player_queue))
         => /\ player_queue[response'.queue_id].status = "searching"
            /\ UNCHANGED <<player_queue, search_task, active_searches>>

\* C4: at most one Searching entry and one running search process per
\* player, and a join adds a row only for a player without Searching entry;
\* otherwise it answers with the existing entry and changes nothing.
C4_IdempotentJoin == []C4_OneSearchingEntry /\ [][C4_JoinStep]_vars

\* a join was answered with an entry that existed before
C4_Witness ==
    /\ response.op = "join"
    /\ response.ok
    /\ response.queue_id # None
    /\ response.queue_id < Len(player_queue)
    /\ player_queue[response.queue_id].status = "searching"

\* the two halves of C5: the state bound and the step of a leave
C5_CancelledHasNoProcess ==
    \A e \in DOMAIN player_queue :
        player_queue[e].status = "cancelled" => search_task[e] # "scheduled"

C5_LeaveStep ==
    /\ \A e \in DOMAIN player_queue :
         player_queue[e].status = "cancelled"
             => player_queue'[e].status = "cancelled"
    /\ (response' # response /\ response'.op = "leave" /\ response'.ok)
         => \E e \in DOMAIN player_queue :
              /\ player_queue[e].status = "searching"
              /\ player_queue'[e].status = "cancelled"
              /\ search_task'[e] = "cancelled"

\* C5: a leave turns the Searching entry into Cancelled and ends its search
\* process; a Cancelled entry has no running process and stays Cancelled.
C5_LeaveCancels == []C5_CancelledHasNoProcess /\ [][C5_LeaveStep]_vars

\* a player has left while another process was searching that would have
\* taken the entry as candidate
C5_Witness ==
    \E e, c \in DOMAIN player_queue :
        /\ player_queue[c].status = "cancelled"
        /\ search_task[c] = "cancelled"
        /\ player_queue[e].status = "searching"
        /\ e # c
        /\ InReach(e, c)
        /\ AboveThreshold(OpponentScore(e, c))

\* the two halves of C10: the state bound and the step of a rejection
C10_EntriesWellFormed ==
    \A e \in DOMAIN player_queue :
        LET prefs == player_queue[e].preferences
        IN  /\ prefs.grid_sizes # {}
            /\ prefs.grid_sizes \subseteq MinGridSize .. MaxGridSize
            /\ prefs.preferred_queue_type \in QueueTypes
            /\ prefs.max_rating_difference \in MinRatingDifference .. MaxRatingDifference
            /\ prefs.max_wait_time \in MinWaitTime .. MaxWaitTime

C10_RejectStep ==
    (response' # response /\ response'.op = "join" /\ ~response'.ok)
        => UNCHANGED <<player_queue, search_task, active_searches, player_ratings>>

\* C10: a malformed join request creates nothing: every queue entry carries
\* preferences inside the accepted ranges, and a rejected join leaves the
\* queue, the search processes and the coordinator's table as they were.
C10_MalformedRejected == []C10_EntriesWellFormed /\ [][C10_RejectStep]_vars

\* a join request has been rejected while the queue was in use
C10_Witness ==
    /\ response.op = "join"
    /\ ~response.ok
    /\ Len(player_queue) > 0

(***************************************************************************)
(* Properties of game play (specification SpecGame).                       *)
(***************************************************************************)
GamesPlayed(pr, player_id) ==
    IF player_id \in DOMAIN pr THEN pr[player_id].games_played ELSE 0

Participants(game_id) == {gp.player_id : gp \in {x \in game_players : x.game_id = game_id}}

\* C6: when a match concludes with a winner, each participant's rating
\* record is updated exactly once for it: the step that completes the game
\* raises the games_played of both participants by one.
C6_RatingUpdatedOnConclusion ==
    [][\A g \in DOMAIN games :
          (games[g].status = "active" /\ games'[g].status = "completed"
                                      /\ games'[g].winner_id # None)
              => \A p \in Participants(g) :
                    GamesPlayed(player_ratings', p) = GamesPlayed(player_ratings, p) + 1]_vars

\* C9: a failure of the real-time counter update does not fail match
\* completion: whenever the failure has been logged for a game, the game is
\* completed with its winner and the winning move is recorded.
C9_CompletionSurvivesStatsFailure ==
    \A g \in DOMAIN games :
        LogEntry("Failed to update winner stats", g) \in error_log
            => /\ games[g].status = "completed"
               /\ games[g].winner_id # None
               /\ \E i \in DOMAIN moves :
                    /\ moves[i].game_id = g
                    /\ moves[i].player_id = games[g].winner_id
                    /\ _check_win(games[g].board, games[g].grid_size, moves[i].player_id)

(***************************************************************************)
(* Properties of the leaderboard cache (specification SpecCache).          *)
(***************************************************************************)
\* C7: no read returns data older than the latest invalidation: every win
\* invalidates both leaderboard types, so what a read returns is a list the
\* players' counters at the time of the read produce.
C7_ReadsAreFresh ==
    read_result # NoRead
        => read_result.data \in
               _compute_default_leaderboard(
                   Database(games, game_players, moves, read_result.counters,
                            leaderboard_cache),
                   read_result.key[1], read_result.key[2])


(***************************************************************************)
(* Properties of reconciliation (specification SpecRecon).                 *)
(***************************************************************************)
GamesWonBy(player_id) == {g \in DOMAIN games : games[g].winner_id = player_id}

MovesInWins(player_id) ==
    {i \in DOMAIN moves : /\ moves[i].player_id = player_id
                          /\ moves[i].game_id \in GamesWonBy(player_id)}

\* C8: a run of the reconciliation to completion leaves every player's
\* counters equal to the values the game and move history gives: the games
\* won, the moves made in them and their quotient, or 0, 0 and no
\* efficiency for a player without wins.
C8_ReconcileConverges ==
    reconcile.finished
        => \A p \in DOMAIN players :
              /\ players[p].total_wins = Cardinality(GamesWonBy(p))
              /\ players[p].total_win_moves = Cardinality(MovesInWins(p))
              /\ IF GamesWonBy(p) = {}
                 THEN players[p].efficiency = NoEfficiency
                 ELSE SameEfficiency(players[p].efficiency,
                                     [num |-> Cardinality(MovesInWins(p)),
                                      den |-> Cardinality(GamesWonBy(p))])


(***************************************************************************)
(* Properties of the rating engine (specification SpecRating).             *)
(***************************************************************************)
\* C11: in a rating update every overall rating moves by at most 50, and
\* every resulting overall rating and per-board-size rating is at least 100
\* and every resulting deviation at least 50.
C11_RatingBounds ==
    [][\A p \in DOMAIN player_ratings :
          /\ Abs(player_ratings'[p].overall_rating - player_ratings[p].overall_rating)
                 <= MAX_RATING_CHANGE
          /\ player_ratings'[p].overall_rating >= MinRating
          /\ player_ratings'[p].grid_3x3_rating >= MinRating
          /\ player_ratings'[p].grid_4x4_rating >= MinRating
          /\ player_ratings'[p].grid_5x5_rating >= MinRating
          /\ player_ratings'[p].rating_deviation >= MIN_DEVIATION]_vars

\* an update has run in which the rating floor and the deviation floor
\* both took effect for the loser
C11_Witness ==
    /\ rating_call # NoRatingCall
    /\ \E p \in DOMAIN player_ratings :
          /\ player_ratings[p].current_loss_streak = 2
          /\ player_ratings[p].games_played = NewPlayerGames + 1
          /\ player_ratings[p].overall_rating = MinRating
          /\ player_ratings[p].rating_deviation = MIN_DEVIATION


\* the rule of C12, from its wording: K by games played, the modifier (in
\* tenths) by board size, delta = K x modifier x (actual - expected)
C12_K(played) == IF played < 20 THEN 40 ELSE IF played < 100 THEN 20 ELSE 10

C12_Modifier(size) == IF size = 3 THEN 8 ELSE IF size = 4 THEN 10 ELSE 12

C12_Rule ==
    rating_call # NoRatingCall
        => LET call == rating_call
               missed == ScoreUnit - call.result.winner_expected
           IN  /\ call.result.winner_change =
                      C12_K(call.winner_rating.games_played)
                      * C12_Modifier(call.grid_size) * missed
               /\ call.result.loser_change =
                      0 - C12_K(call.loser_rating.games_played)
                          * C12_Modifier(call.grid_size) * missed

\* the example of C12: a winner rated 1200 after 15 games beats a loser
\* rated 1300 after 15 games on a board of size 3
C12_Example ==
    /\ rating_call # NoRatingCall
    /\ rating_call.winner_rating.overall_rating = 1200
    /\ rating_call.winner_rating.games_played = 15
    /\ rating_call.loser_rating.overall_rating = 1300
    /\ rating_call.loser_rating.games_played = 15
    /\ rating_call.grid_size = 3

\* C12 (amended): the rating update computes delta = K x modifier x
\* (actual - expected) with K = 40 / 20 / 10 for fewer than 20 / fewer than
\* 100 / at least 100 games and modifier 0.8 / 1.0 / 1.2 for board size 3 /
\* 4 / >= 5; in the example the winner's expected score is about 0.36, the
\* delta about +20.5 for the winner and -20.5 for the loser, the new winner
\* rating 1220 and the new loser rating 1279 (both sums are cut to integers).
C12_DeltaRule ==
    /\ C12_Rule
    /\ C12_Example
         => /\ rating_call.result.winner_expected \in 355000 .. 365000
            /\ rating_call.result.winner_change \in 204000000 .. 206000000
            /\ rating_call.result.loser_change = 0 - rating_call.result.winner_change
            /\ rating_call.result.new_winner_rating = 1220
            /\ rating_call.result.new_loser_rating = 1279

\* C12 as stated: the same rule; in the example the winner's expected
\* score is about 0.24, the delta about +24.3, the new winner rating 1224
\* and the new loser rating 1276, the loser losing what the winner gains.
C12_DeltaRuleAsStated ==
    /\ C12_Rule
    /\ C12_Example
         => /\ rating_call.result.winner_expected \in 235000 .. 245000
            /\ rating_call.result.winner_change \in 242000000 .. 244000000
            /\ rating_call.result.new_winner_rating = 1224
            /\ rating_call.result.new_loser_rating = 1276
            /\ rating_call.result.new_winner_rating - 1200
                   = 1300 - rating_call.result.new_loser_rating

\* the update of the example has run and is stored
C12_Witness ==
    /\ C12_Example
    /\ player_ratings[rating_call.winner_id].overall_rating = 1220
    /\ player_ratings[rating_call.loser_id].overall_rating = 1279


\* C13: the compatibility score of any two queue entries lies in [0,1] and
\* is the same whichever of the two is taken first.
C13_ScoreRangeAndSymmetry ==
    \A e, j \in DOMAIN player_queue :
        LET forth == OpponentScore(e, j)
            back == OpponentScore(j, e)
        IN  /\ forth.den > 0
            /\ 0 <= forth.num
            /\ forth.num <= forth.den
            /\ forth.num * back.den = back.num * forth.den

\* the score was taken for a match between two entries with different
\* limits, and lies strictly between 0 and 1
C13_Witness ==
    \E i \in DOMAIN matchmaking_history : \E e, j \in DOMAIN player_queue :
        /\ player_queue[e].player_id = matchmaking_history[i].player1_id
        /\ player_queue[j].player_id = matchmaking_history[i].player2_id
        /\ player_queue[e].status = "matched"
        /\ player_queue[j].status = "matched"
        /\ player_queue[e].preferences.max_rating_difference
               # player_queue[j].preferences.max_rating_difference
        /\ matchmaking_history[i].preference_match_score = OpponentScore(e, j)
        /\ 0 < OpponentScore(e, j).num
        /\ OpponentScore(e, j).num < OpponentScore(e, j).den


\* the entries a step claims
C14_Claimed ==
    {e \in DOMAIN player_queue : /\ player_queue[e].status = "searching"
                                 /\ player_queue'[e].status = "matched"}

\* the pair of the example of C14: rated 1200 and 1220, same queue class,
\* a common board size, both with a maximal rating difference of 200
C14_ExamplePair(e, j) ==
    /\ {player_queue[e].skill_rating, player_queue[j].skill_rating} = {1200, 1220}
    /\ player_queue[e].queue_type = player_queue[j].queue_type
    /\ player_queue[e].preferences.grid_sizes
           \cap player_queue[j].preferences.grid_sizes # {}
    /\ player_queue[e].preferences.max_rating_difference = 200
    /\ player_queue[j].preferences.max_rating_difference = 200

\* C14: every successful claim creates exactly one match record, holding the
\* two player ids, the id of the game created for them, the compatibility
\* score of the pair and the absolute difference of the two entries' rating
\* snapshots; no record is created otherwise.  The pair of the example scores
\* at least 0.85, is claimed when one of the two searches while they are the
\* only Searching entries, and gets a record with rating difference 20.
C14_OneRecordPerClaim ==
    [][/\ C14_Claimed = {} => matchmaking_history' = matchmaking_history
       /\ C14_Claimed # {} =>
            /\ Len(matchmaking_history') = Len(matchmaking_history) + 1
            /\ SubSeq(matchmaking_history', 1, Len(matchmaking_history))
                   = matchmaking_history
            /\ Len(games') = Len(games) + 1
            /\ \E e, j \in C14_Claimed :
                 LET record == matchmaking_history'[Len(matchmaking_history')]
                 IN  /\ e # j
                     /\ C14_Claimed = {e, j}
                     /\ record.player1_id = player_queue[e].player_id
                     /\ record.player2_id = player_queue[j].player_id
                     /\ record.game_id = Len(games')
                     /\ {gp.player_id : gp \in {g \in game_players' :
                                                  g.game_id = record.game_id}}
                            = {record.player1_id, record.player2_id}
                     /\ record.preference_match_score =
                            _calculate_match_compatibility(
                                player_queue[e].preferences,
                                player_queue[j].preferences,
                                player_queue[e].skill_rating,
                                player_queue[j].skill_rating)
                     /\ record.rating_difference =
                            Abs(player_queue[e].skill_rating
                                - player_queue[j].skill_rating)
       /\ \A e, j \in DOMAIN player_queue :
            /\ C14_ExamplePair(e, j)
            /\ SearchIteration(e)
            /\ {i \in DOMAIN player_queue : player_queue[i].status = "searching"}
                   = {e, j}
            => /\ 100 * OpponentScore(e, j).num >= 85 * OpponentScore(e, j).den
               /\ C14_Claimed = {e, j}
               /\ matchmaking_history'[Len(matchmaking_history')].rating_difference
                      = 20]_vars

\* the pair of the example has been claimed, the lower rated entry searching
C14_Witness ==
    \E i \in DOMAIN matchmaking_history : \E e, j \in DOMAIN player_queue :
        /\ player_queue[e].status = "matched"
        /\ player_queue[j].status = "matched"
        /\ player_queue[e].matched_at = player_queue[j].matched_at
        /\ player_queue[e].skill_rating = 1200
        /\ player_queue[j].skill_rating = 1220
        /\ player_queue[e].preferences.max_rating_difference = 200
        /\ player_queue[j].preferences.max_rating_difference = 200
        /\ matchmaking_history[i].player1_id = player_queue[e].player_id
        /\ matchmaking_history[i].player2_id = player_queue[j].player_id
        /\ matchmaking_history[i].rating_difference = 20
        /\ matchmaking_history[i].game_id \in DOMAIN games


\* C15: the four integrity checks are read-only: a run of
\* validate_data_integrity leaves the players with their counters, the games,
\* the moves, the game-player rows and the cache rows as they were.
C15_ChecksReadOnly ==
    [][ValidateDataIntegrity
         => UNCHANGED <<players, games, moves, game_players, leaderboard_cache>>]_vars

\* a run has reported a player whose stored counters differ from the
\* history, and the counters are still the reported ones
C15_Witness ==
    /\ integrity_report.total_issues > 0
    /\ \E m \in integrity_report.issues.efficiency_mismatches :
          /\ players[m.player_id].total_wins = m.stored_wins
          /\ players[m.player_id].efficiency = m.stored_efficiency
          /\ m.stored_wins # m.actual_wins


\* C16: Tier 1 is safe under threads: no call on the shared cache raises
\* an error, no read returns an entry past its expiry, and whenever no
\* thread is inside a call the data dictionary and the expiry dictionary
\* have the same keys, at most 20 of them.
C16_Tier1ThreadSafe ==
    /\ \A t \in Threads : /\ tier1.thread[t].raised = ""
                          /\ ~tier1.thread[t].stale
    /\ (\A t \in Threads : tier1.thread[t].pc = "idle")
         => /\ DOMAIN tier1.memory_cache = DOMAIN tier1.cache_ttl
            /\ Cardinality(DOMAIN tier1.memory_cache) <= MemoryCacheSize


(***************************************************************************)
(* Properties of game play (specification SpecGame).                       *)
(***************************************************************************)
\* the moves of a game in the order of their acceptance
MoveOrder(mvs, game_id) ==
    SelectSeq(mvs, LAMBDA m : m.game_id = game_id)

Creator(game_id) ==
    (CHOOSE gp \in game_players : gp.game_id = game_id /\ gp.player_order = 1).player_id

C17_Alternating ==
    \A g \in DOMAIN games :
        LET accepted == MoveOrder(moves, g)
        IN  /\ accepted # << >> => accepted[1].player_id = Creator(g)
            /\ \A i \in 1 .. Len(accepted) - 1 :
                  /\ accepted[i].player_id # accepted[i + 1].player_id
                  /\ accepted[i + 1].player_id \in Participants(g)

\* what make_move answers to the participant whose turn it is not
C17_WrongTurnRefused ==
    LET db == Database(games, game_players, moves, players, leaderboard_cache)
    IN  \A g \in DOMAIN games : \A p \in Participants(g), pos \in MovePositions :
            games[g].status = "active" /\ games[g].current_turn # p
                => /\ make_move(db, g, p, pos[1], pos[2], TRUE).raised = "NotYourTurn"
                   /\ make_move(db, g, p, pos[1], pos[2], TRUE).db = db

\* C17: the accepted moves of a game alternate between its two players,
\* the creator first; a make_move call on an active game by the participant
\* whose turn it is not is answered with NotYourTurn and leaves the board,
\* the moves, the current turn and the status as they were.
C17_TurnsAlternate ==
    /\ [](C17_Alternating /\ C17_WrongTurnRefused)
    /\ [][response'.error = "NotYourTurn"
            => ~response'.ok /\ games' = games /\ moves' = moves]_vars

\* three moves have been accepted and the call of the player who made the
\* latest of them was turned down
C17_Witness ==
    /\ Len(MoveOrder(moves, 1)) >= 3
    /\ games[1].status = "active"
    /\ response.error = "NotYourTurn"
    /\ games[1].current_turn # moves[Len(moves)].player_id


\* a full row, column or diagonal of the player's marks
C18_Line(board, size, player_id) ==
    LET cells == 0 .. size - 1
    IN  \/ \E r \in cells : \A c \in cells : board[<<r, c>>] = player_id
        \/ \E c \in cells : \A r \in cells : board[<<r, c>>] = player_id
        \/ \A d \in cells : board[<<d, d>>] = player_id
        \/ \A d \in cells : board[<<d, size - 1 - d>>] = player_id

\* what make_move does with a move on a free cell by the player to move:
\* on PostgreSQL (sql_ok) and on a database that refuses the counter update
C18_MoveOutcome ==
    LET db == Database(games, game_players, moves, players, leaderboard_cache)
    IN  \A g \in DOMAIN games, pos \in MovePositions, sql_ok \in BOOLEAN :
            LET p == games[g].current_turn
                board == [games[g].board EXCEPT ![pos] = p]
                after == make_move(db, g, p, pos[1], pos[2], sql_ok).db.games[g]
            IN  /\ games[g].status = "active"
                /\ pos \in DOMAIN games[g].board
                /\ games[g].board[pos] = None
                => /\ C18_Line(board, games[g].grid_size, p)
                        => /\ after.status = "completed"
                           /\ after.winner_id = p
                   /\ (/\ ~C18_Line(board, games[g].grid_size, p)
                       /\ \A c \in DOMAIN board : board[c] # None)
                        => /\ after.status = "completed"
                           /\ after.winner_id = None

\* C18: a move that completes a row, column or diagonal of the mover's
\* marks completes the game with the mover as winner (so not as a draw); a
\* move that fills the board without such a line completes it without a
\* winner; a completed game accepts no further move and keeps its winner.
C18_WinAndDraw ==
    /\ []C18_MoveOutcome
    /\ [][\A g \in DOMAIN games :
            games[g].status = "completed"
                => /\ games'[g] = games[g]
                   /\ MoveOrder(moves', g) = MoveOrder(moves, g)]_vars


(***************************************************************************)
(* Properties of creating and joining games (specification SpecLobby).     *)
(***************************************************************************)
C19_StatusRank(status) ==
    CASE status = "waiting" -> 1 [] status = "active" -> 2 [] status = "completed" -> 3

\* a waiting game has its creator as only player and nobody to move; any
\* other game has two players; before the first move the creator is to move
C19_GamesWellFormed(gs, gps, mvs) ==
    \A g \in DOMAIN gs :
        LET registered == {gp \in gps : gp.game_id = g}
        IN  /\ Cardinality(registered) <= 2
            /\ \E gp \in registered : gp.player_order = 1
            /\ gs[g].status = "waiting"
                 => Cardinality(registered) = 1 /\ gs[g].current_turn = None
            /\ gs[g].status # "waiting"
                 => Cardinality({gp.player_id : gp \in registered}) = 2
            /\ (gs[g].status = "active" /\ MoveOrder(mvs, g) = << >>)
                 => \E gp \in registered : /\ gp.player_order = 1
                                           /\ gp.player_id = gs[g].current_turn

\* C19: a created game is waiting with exactly its creator as player; the
\* join of a second, distinct player makes it active with exactly two players
\* and the creator to move; a join that is turned down (game not waiting,
\* player already in it, two players already) changes nothing; no game ever
\* has more than two players and a game's status only moves from waiting to
\* active to completed.
C19_LobbyRules ==
    [][/\ C19_GamesWellFormed(games, game_players, moves)
       /\ C19_GamesWellFormed(games', game_players', moves')
       /\ Len(games') > Len(games)
            => /\ Len(games') = Len(games) + 1
               /\ games'[Len(games')].status = "waiting"
               /\ {gp.player_order : gp \in {x \in game_players' :
                                               x.game_id = Len(games')}} = {1}
       /\ \A g \in DOMAIN games :
            /\ C19_StatusRank(games'[g].status) >= C19_StatusRank(games[g].status)
            /\ C19_StatusRank(games'[g].status) <= C19_StatusRank(games[g].status) + 1
            /\ {gp \in game_players : gp.game_id = g}
                   \subseteq {gp \in game_players' : gp.game_id = g}
       /\ (response'.op = "join_game" /\ ~response'.ok)
            => games' = games /\ game_players' = game_players]_vars

(***************************************************************************)
(* C20: the freshly computed leaderboard.                                  *)
(***************************************************************************)
\* the games a player has won according to the games table
C20_Won(p) == Cardinality({g \in DOMAIN games : games[g].winner_id = p})

C20_Winners == {p \in DOMAIN players : C20_Won(p) >= 1}

\* moves per win from the moves table, as a fraction
C20_MovesPerWin(p) ==
    [num |-> Cardinality({i \in DOMAIN moves :
                             /\ moves[i].player_id = p
                             /\ games[moves[i].game_id].winner_id = p}),
     den |-> C20_Won(p)]

C20_Listed(data) == {data[i].id : i \in DOMAIN data}

\* only winners, each once, in the order of the type, and the top N of them
C20_Ranking(key, data) ==
    /\ C20_Listed(data) \subseteq C20_Winners
    /\ \A i, j \in DOMAIN data : i # j => data[i].id # data[j].id
    /\ \A i \in DOMAIN data : data[i].wins = C20_Won(data[i].id)
    /\ Len(data) = Min(key[2], Cardinality(C20_Winners))
    /\ \A i, j \in DOMAIN data :
          i < j => IF key[1] = "wins" THEN data[i].wins >= data[j].wins
                   ELSE data[i].efficiency <= data[j].efficiency
    /\ \A p \in C20_Winners \ C20_Listed(data) : \A i \in DOMAIN data :
          IF key[1] = "wins" THEN data[i].wins >= C20_Won(p)
          ELSE C20_MovesPerWin(data[i].id).num * C20_MovesPerWin(p).den
                   <= C20_MovesPerWin(p).num * C20_MovesPerWin(data[i].id).den

\* the player who has won more games than every other player leads the wins
\* leaderboard
C20_StrictLeaderFirst(key, data) ==
    key[1] = "wins" =>
        \A p \in C20_Winners :
            (\A q \in DOMAIN players \ {p} : C20_Won(q) < C20_Won(p))
                => /\ data # << >>
                   /\ data[1].id = p
                   /\ data[1].wins >= C20_Won(p)

\* as stated: a player no other player has won more than leads it
C20_LeaderFirst(key, data) ==
    key[1] = "wins" =>
        \A p \in C20_Winners :
            (\A q \in DOMAIN players \ {p} : C20_Won(q) <= C20_Won(p))
                => /\ data # << >>
                   /\ data[1].id = p
                   /\ data[1].wins >= C20_Won(p)

\* a leaderboard has just been computed from the tables
C20_Fresh == read_result' # read_result /\ read_result'.tier \in {0, 3}

\* C20 (amended): a freshly computed leaderboard lists only players with at
\* least one win, each with the number of games they won, ordered by wins
\* descending or by efficiency ascending and cut to the top N; a player who
\* has won k games while every other player has won fewer is its first
\* entry on the wins leaderboard, with wins >= k.
C20_FreshLeaderboard ==
    [][C20_Fresh => /\ C20_Ranking(read_result.key, read_result.data)'
                    /\ C20_StrictLeaderFirst(read_result.key, read_result.data)']_vars

\* C20 as stated: the same with "no other player has won more" admitting a
\* player with as many wins
C20_FreshLeaderboardAsStated ==
    [][C20_Fresh => /\ C20_Ranking(read_result.key, read_result.data)'
                    /\ C20_LeaderFirst(read_result.key, read_result.data)']_vars

\* the Tier-3 wins leaderboard read after player 1's second win: player 1
\* first with two wins, player 2 behind
C20_Witness ==
    /\ read_result.tier = 3
    /\ read_result.key = <<"wins", LeaderboardTop>>
    /\ read_result.counters = players
    /\ C20_Won(1) = 2
    /\ Len(read_result.data) = 2
    /\ read_result.data[1].id = 1
    /\ read_result.data[1].wins = 2
    /\ read_result.data[2].id = 2

(***************************************************************************)
(* C21: the timeout of a queue entry.                                      *)
(***************************************************************************)
\* the entry has waited longer than its max_wait_time
C21_Overdue(e) == now - player_queue[e].joined_at > player_queue[e].max_wait_time

\* a step sets an entry to "timeout" only from "searching" and only when the
\* entry is overdue; it creates no game and no history row
C21_TimeoutStep ==
    \A e \in DOMAIN player_queue :
        (player_queue'[e].status = "timeout" /\ player_queue[e].status # "timeout")
            => /\ player_queue[e].status = "searching"
               /\ C21_Overdue(e)
               /\ search_task[e] = "scheduled"
               /\ search_task'[e] = "finished"

\* the iteration for an overdue Searching entry matches it or sets it to
\* "timeout", and ends its process either way; unmatched, it creates no
\* history row
C21_OverdueIterationEnds ==
    \A e \in DOMAIN player_queue :
        (C21_Overdue(e) /\ player_queue[e].status = "searching")
            => \A opponents \in potential_opponents(e) :
                 LET iteration == _continuous_matchmaking_search(e, opponents)
                 IN  /\ iteration.search_task[e] = "finished"
                     /\ iteration.active_searches[player_queue[e].player_id] = None
                     /\ IF iteration.success
                        THEN iteration.player_queue[e].status = "matched"
                        ELSE /\ iteration.player_queue[e].status = "timeout"
                             /\ iteration.player_queue[e].matched_at = now
                             /\ iteration.matchmaking_history = matchmaking_history

\* the process of a timed-out entry has ended, so it makes no further attempt
C21_TimedOutProcessEnded ==
    \A e \in DOMAIN player_queue :
        player_queue[e].status = "timeout"
            => search_task[e] = "finished"

\* C21: an entry becomes TimedOut only when its wait since joining exceeds
\* its max wait; an iteration for such an entry that finds no match sets it
\* to TimedOut at once and ends the search process, which attempts nothing
\* afterwards.
C21_Timeout ==
    /\ [](C21_OverdueIterationEnds /\ C21_TimedOutProcessEnded)
    /\ [][C21_TimeoutStep]_vars

\* an entry has timed out while another entry is still Searching
C21_Witness ==
    \E e, j \in DOMAIN player_queue :
        /\ player_queue[e].status = "timeout"
        /\ player_queue[e].matched_at - player_queue[e].joined_at
               > player_queue[e].max_wait_time
        /\ search_task[e] = "finished"
        /\ player_queue[j].status = "searching"

(***************************************************************************)
(* C22: every search ends and every entry leaves Searching.                *)
(***************************************************************************)
\* a Searching entry has a running search process
C22_SearchingHasProcess ==
    \A e \in DOMAIN player_queue :
        player_queue[e].status = "searching" => search_task[e] = "scheduled"

\* the entry can reach its timeout before the observed clock stops
C22_CanTimeOut(e) ==
    /\ e \in DOMAIN player_queue
    /\ player_queue[e].joined_at + player_queue[e].max_wait_time
           < ClockStep + MaxSearchTicks * SearchClockStep

\* C22: every search process terminates and every entry eventually leaves
\* Searching; no entry is Searching without a running process, also after
\* the process ended with an error.
C22_SearchesEnd ==
    /\ []C22_SearchingHasProcess
    /\ \A e \in 1 .. MaxEntries :
          C22_CanTimeOut(e)
              ~> (/\ e \in DOMAIN player_queue
                  /\ player_queue[e].status # "searching"
                  /\ search_task[e] # "scheduled")

(***************************************************************************)
(* C23: the rating radius of a queue entry.                                *)
(***************************************************************************)
\* initial radius <= current radius <= 3 x initial radius
C23_RadiusBounds ==
    \A e \in DOMAIN player_queue :
        /\ player_queue[e].initial_rating_range <= player_queue[e].current_rating_range
        /\ player_queue[e].current_rating_range
               <= 3 * player_queue[e].initial_rating_range

\* the step widens the radius of entry e
C23_Expands(e) ==
    player_queue'[e].current_rating_range # player_queue[e].current_rating_range

\* the radius never shrinks; an expansion adds 50, or less when that reaches
\* the cap, and comes no sooner than 30 s after joining and 30 s after the
\* previous expansion
C23_ExpansionSize ==
    \A e \in DOMAIN player_queue :
        LET before == player_queue[e]
            after == player_queue'[e]
            added == after.current_rating_range - before.current_rating_range
        IN  /\ after.initial_rating_range = before.initial_rating_range
            /\ added >= 0
            /\ C23_Expands(e) =>
                 /\ before.status = "searching"
                 /\ \/ added = 50
                    \/ added < 50 /\ after.current_rating_range
                                         = 3 * before.initial_rating_range
                 /\ now - before.joined_at >= 30
                 /\ \/ before.search_expanded_at = None
                    \/ now - before.search_expanded_at >= 30
                 /\ after.search_expanded_at = now

\* an expansion happens only when no candidate of the entry qualifies
C23_ExpansionWithoutCandidate ==
    \A e \in DOMAIN player_queue :
        C23_Expands(e) =>
            \A opponents \in potential_opponents(e) :
                _select_best_opponent(e, opponents) = None

\* the size and timing of expansions alone
C23_RadiusSteps == []C23_RadiusBounds /\ [][C23_ExpansionSize]_vars

\* C23: the radius stays between the initial radius and 3 x the initial
\* radius and never decreases; an expansion adds the step 50 or less when
\* capped, only in an iteration where no candidate qualified, at least 30 s
\* after joining and at least 30 s after the previous expansion.
C23_Radius ==
    /\ []C23_RadiusBounds
    /\ [][C23_ExpansionSize /\ C23_ExpansionWithoutCandidate]_vars

(***************************************************************************)
(* C24: the candidates of a search iteration.                              *)
(***************************************************************************)
\* the other Searching entries of e's queue class inside e's current radius
C24_Eligible(e) ==
    {j \in DOMAIN player_queue \ {e} :
        /\ player_queue[j].status = "searching"
        /\ player_queue[j].queue_type = player_queue[e].queue_type
        /\ Abs(player_queue[j].skill_rating - player_queue[e].skill_rating)
               <= player_queue[e].current_rating_range}

C24_Distance(e, j) ==
    Abs(player_queue[j].skill_rating - player_queue[e].skill_rating)

\* a comes before b for e: closer, or as close and joined earlier
C24_Before(e, a, b) ==
    \/ C24_Distance(e, a) < C24_Distance(e, b)
    \/ /\ C24_Distance(e, a) = C24_Distance(e, b)
       /\ player_queue[a].joined_at < player_queue[b].joined_at

\* the first 10 eligible entries, each once
C24_TopTen(e, opponents) ==
    /\ Range(opponents) \subseteq C24_Eligible(e)
    /\ \A i, k \in DOMAIN opponents : i # k => opponents[i] # opponents[k]
    /\ Len(opponents) = Min(10, Cardinality(C24_Eligible(e)))

\* the candidates are eligible entries in order of ascending distance
C24_ByDistance ==
    \A e \in DOMAIN player_queue :
        player_queue[e].status = "searching" =>
            \A opponents \in potential_opponents(e) :
                /\ C24_TopTen(e, opponents)
                /\ \A i, k \in DOMAIN opponents :
                      i < k => C24_Distance(e, opponents[i])
                                   <= C24_Distance(e, opponents[k])

\* C24: the candidates of an iteration are exactly the up-to-10 other
\* Searching entries of the same queue class within the current radius, by
\* ascending rating distance, entries at equal distance by earliest join
\* time.
C24_CandidateSet ==
    \A e \in DOMAIN player_queue :
        player_queue[e].status = "searching" =>
            \A opponents \in potential_opponents(e) :
                /\ C24_TopTen(e, opponents)
                /\ \A i, k \in DOMAIN opponents :
                      i < k => ~C24_Before(e, opponents[k], opponents[i])
                /\ \A j \in C24_Eligible(e) \ Range(opponents) :
                      \A i \in DOMAIN opponents : ~C24_Before(e, j, opponents[i])

(***************************************************************************)
(* C25: the opponent a search iteration chooses.                           *)
(***************************************************************************)
\* the compatibility score of j for e is above 0.3
C25_AboveFloor(e, j) == 10 * OpponentScore(e, j).num > 3 * OpponentScore(e, j).den

\* j scores at least as high for e as k does
C25_AtLeast(e, j, k) ==
    OpponentScore(e, j).num * OpponentScore(e, k).den
        >= OpponentScore(e, k).num * OpponentScore(e, j).den

\* the chosen opponent is a candidate of maximal score, above the floor
C25_BestChosen(e, opponents) ==
    LET best == _select_best_opponent(e, opponents)
    IN  IF \E i \in DOMAIN opponents : C25_AboveFloor(e, opponents[i])
        THEN /\ best \in Range(opponents)
             /\ C25_AboveFloor(e, best)
             /\ \A i \in DOMAIN opponents : C25_AtLeast(e, best, opponents[i])
        ELSE best = None

C25_NoneAboveFloor(e, opponents) ==
    \A i \in DOMAIN opponents : ~C25_AboveFloor(e, opponents[i])

\* the iteration attempts no claim: no game, no history row, no entry newly
\* Matched, no other entry touched
C25_NoClaim(e, iteration) ==
    /\ iteration.games = games
    /\ iteration.game_players = game_players
    /\ iteration.matchmaking_history = matchmaking_history
    /\ \A j \in DOMAIN player_queue :
          /\ iteration.player_queue[j].status = "matched"
                 <=> player_queue[j].status = "matched"
          /\ j # e => iteration.player_queue[j] = player_queue[j]

\* a step that appends a history row matched its first player's entry with
\* a candidate of maximal score above the floor
C25_ClaimStep ==
    Len(matchmaking_history') > Len(matchmaking_history) =>
        \A e, j \in DOMAIN player_queue :
            (/\ player_queue[e].status = "searching"
             /\ player_queue[j].status = "searching"
             /\ matchmaking_history'[Len(matchmaking_history')].player1_id
                    = player_queue[e].player_id
             /\ matchmaking_history'[Len(matchmaking_history')].player2_id
                    = player_queue[j].player_id)
                => /\ j \in C24_Eligible(e)
                   /\ C25_AboveFloor(e, j)
                   /\ \A k \in C24_Eligible(e) : C25_AtLeast(e, j, k)
                   /\ player_queue'[e].status = "matched"
                   /\ player_queue'[j].status = "matched"

\* C25 (amended): the chosen opponent is a candidate of maximal score, above
\* the floor 0.3; when no candidate scores above the floor the iteration
\* attempts no claim: no game and no history row is created and no entry
\* becomes Matched, while the searching entry itself may still be widened
\* or timed out.
C25_BestOpponent ==
    /\ [](\A e \in DOMAIN player_queue :
            player_queue[e].status = "searching" =>
                \A opponents \in potential_opponents(e) :
                    /\ C25_BestChosen(e, opponents)
                    /\ C25_NoneAboveFloor(e, opponents) =>
                          C25_NoClaim(e, _continuous_matchmaking_search(e, opponents)))
    /\ [][C25_ClaimStep]_vars

\* C25 as stated: when no candidate scores above the floor, no entry changes
C25_BestOpponentAsStated ==
    /\ [](\A e \in DOMAIN player_queue :
            player_queue[e].status = "searching" =>
                \A opponents \in potential_opponents(e) :
                    /\ C25_BestChosen(e, opponents)
                    /\ C25_NoneAboveFloor(e, opponents) =>
                          /\ C25_NoClaim(e, _continuous_matchmaking_search(e, opponents))
                          /\ _continuous_matchmaking_search(e, opponents).player_queue
                                 = player_queue)
    /\ [][C25_ClaimStep]_vars

\* player 2 has been matched with player 3, its best candidate, while player
\* 1, a lower-scored candidate above the floor, is still Searching; player
\* 3's own candidates had included player 1 below the floor
C25_Witness ==
    \E e, j, k \in DOMAIN player_queue :
        /\ matchmaking_history # << >>
        /\ matchmaking_history[1].player1_id = player_queue[e].player_id
        /\ matchmaking_history[1].player2_id = player_queue[j].player_id
        /\ player_queue[e].status = "matched"
        /\ player_queue[j].status = "matched"
        /\ player_queue[k].status = "searching"
        /\ player_queue[k].joined_at < player_queue[e].matched_at
        /\ C25_AboveFloor(e, k)
        /\ ~C25_AtLeast(e, k, j)
        /\ ~C25_AboveFloor(j, k)

(***************************************************************************)
(* C26: one update of a rating record (specification SpecRating).          *)
(***************************************************************************)
C26_Max(a, b) == IF a > b THEN a ELSE b

\* the board-size ratings of row new against row old after a game on a
\* board of grid_size whose overall rating moved by delta
C26_GridRatings(old, new, grid_size, delta) ==
    /\ new.grid_3x3_rating = IF grid_size = 3
                             THEN C26_Max(100, old.grid_3x3_rating + delta)
                             ELSE old.grid_3x3_rating
    /\ new.grid_4x4_rating = IF grid_size = 4
                             THEN C26_Max(100, old.grid_4x4_rating + delta)
                             ELSE old.grid_4x4_rating
    /\ new.grid_5x5_rating = IF grid_size = 5
                             THEN C26_Max(100, old.grid_5x5_rating + delta)
                             ELSE old.grid_5x5_rating

C26_Record(old, new, grid_size, won) ==
    /\ new.games_played = old.games_played + 1
    /\ won => /\ new.current_win_streak = old.current_win_streak + 1
              /\ new.current_loss_streak = 0
              /\ new.best_win_streak
                     = C26_Max(old.best_win_streak, new.current_win_streak)
    /\ ~won => /\ new.current_loss_streak = old.current_loss_streak + 1
               /\ new.current_win_streak = 0
               /\ new.best_win_streak = old.best_win_streak
    /\ new.peak_rating # old.peak_rating <=> new.overall_rating > old.peak_rating
    /\ new.peak_rating = C26_Max(old.peak_rating, new.overall_rating)
    /\ C26_GridRatings(old, new, grid_size,
                       new.overall_rating - old.overall_rating)

C26_UpdateStep ==
    rating_call' # rating_call =>
        /\ C26_Record(player_ratings[rating_call'.winner_id],
                      player_ratings'[rating_call'.winner_id],
                      rating_call'.grid_size, TRUE)
        /\ C26_Record(player_ratings[rating_call'.loser_id],
                      player_ratings'[rating_call'.loser_id],
                      rating_call'.grid_size, FALSE)
        /\ \A p \in DOMAIN player_ratings :
              p \notin {rating_call'.winner_id, rating_call'.loser_id}
                  => player_ratings'[p] = player_ratings[p]

\* C26: one rating-record update adds 1 to games played; a win adds 1 to the
\* win streak, zeroes the loss streak and sets the best streak to the
\* maximum of best and win streak; a loss adds 1 to the loss streak and
\* zeroes the win streak; the peak rises exactly when the new rating exceeds
\* it; the rating of the game's board size moves by the overall change,
\* floored at 100, and the other board-size ratings stay.
C26_RatingRecord == [][C26_UpdateStep]_vars

\* a game on a 3x3 board after which the winner set a new best streak
\* without reaching its peak and the loser, on a losing run, had its 3x3
\* rating held at the floor
C26_Witness ==
    /\ rating_call # NoRatingCall
    /\ rating_call.grid_size = 3
    /\ LET winner == player_ratings[rating_call.winner_id]
           loser == player_ratings[rating_call.loser_id]
       IN  /\ winner.best_win_streak > rating_call.winner_rating.best_win_streak
           /\ winner.overall_rating > rating_call.winner_rating.overall_rating
           /\ winner.peak_rating > winner.overall_rating
           /\ loser.overall_rating < rating_call.loser_rating.overall_rating
           /\ rating_call.loser_rating.grid_3x3_rating
                  + loser.overall_rating - rating_call.loser_rating.overall_rating < 100
           /\ loser.grid_3x3_rating = 100
           /\ loser.grid_4x4_rating = rating_call.loser_rating.grid_4x4_rating
           /\ loser.current_loss_streak > 1

(***************************************************************************)
(* C27: one read through the tiers (specification SpecTiers).              *)
(***************************************************************************)
\* a step that is a read: it answers, or it stores an entry in Tier 1
C27_IsRead ==
    \/ read_result' # read_result
    \/ \E k \in DOMAIN memory_cache' :
          k \notin DOMAIN memory_cache \/ memory_cache'[k] # memory_cache[k]

C27_TierOneFresh(key) ==
    key \in DOMAIN memory_cache /\ memory_cache[key].ttl >= now

C27_TierTwoFresh(key) ==
    key \in DOMAIN leaderboard_cache /\ leaderboard_cache[key].expires_at > now

C27_Recomputed(key) ==
    _compute_default_leaderboard(
        Database(games, game_players, moves, players, leaderboard_cache),
        key[1], key[2])

C27_ReadStep ==
    C27_IsRead =>
        LET key == read_result'.key
            data == read_result'.data
        IN  IF C27_TierOneFresh(key)
            THEN /\ read_result'.tier = 1
                 /\ data = memory_cache[key].data
                 /\ UNCHANGED <<memory_cache, leaderboard_cache>>
            ELSE /\ memory_cache'[key] = [data |-> data, ttl |-> now + MemoryTtl]
                 /\ IF C27_TierTwoFresh(key)
                    THEN /\ read_result'.tier = 2
                         /\ data = leaderboard_cache[key].data
                         /\ UNCHANGED leaderboard_cache
                    ELSE /\ read_result'.tier = 3
                         /\ data \in C27_Recomputed(key)
                         /\ read_result'.counters = players
                         /\ leaderboard_cache'[key]
                                = [data |-> data, expires_at |-> now + DatabaseTtl]
                         /\ \A k \in DOMAIN leaderboard_cache \ {key} :
                               /\ k \in DOMAIN leaderboard_cache'
                               /\ leaderboard_cache'[k] = leaderboard_cache[k]
                         /\ DOMAIN leaderboard_cache'
                                = DOMAIN leaderboard_cache \cup {key}

C27_WitnessTierTwo ==
    /\ read_result.tier = 2
    /\ read_result.key \in DOMAIN leaderboard_cache
    /\ leaderboard_cache[read_result.key].expires_at < now + DatabaseTtl - MemoryTtl
    /\ leaderboard_cache[read_result.key].expires_at > now
    /\ read_result.key \in DOMAIN memory_cache
    /\ memory_cache[read_result.key].ttl = now + MemoryTtl

C28_Bounded == Cardinality(DOMAIN memory_cache) <= 20

\* the keys that a step stores in Tier 1
C28_Stored ==
    {k \in DOMAIN memory_cache' :
        k \notin DOMAIN memory_cache \/ memory_cache'[k] # memory_cache[k]}

C28_StoreStep ==
    \A key \in C28_Stored :
        LET held == DOMAIN memory_cache \ {key}
            kept == DOMAIN memory_cache' \ {key}
        IN  /\ kept \subseteq held
            /\ \A k \in kept : memory_cache'[k] = memory_cache[k]
            /\ IF Cardinality(held) + 1 > 20
               THEN /\ Cardinality(held \ kept) = 1
                    /\ \A victim \in held \ kept :
                          \A o \in held :
                              memory_cache[victim].ttl <= memory_cache[o].ttl
                    /\ memory_cache[CHOOSE victim \in held \ kept : TRUE].ttl
                           < memory_cache'[key].ttl
               ELSE kept = held

C29_Kept(cache, leaderboard_type) ==
    [k \in {key \in DOMAIN cache :
               leaderboard_type # "" /\ key[1] # leaderboard_type} |-> cache[k]]

\* a step of the manager that takes entries out of a tier; a move that
\* concludes a game clears rows as well, through a manager of its own
C29_IsInvalidate ==
    /\ moves' = moves
    /\ \/ DOMAIN memory_cache \ DOMAIN memory_cache' # {}
       \/ DOMAIN leaderboard_cache \ DOMAIN leaderboard_cache' # {}

C29_InvalidateStep ==
    C29_IsInvalidate =>
        /\ \E leaderboard_type \in LeaderboardTypes \cup {""} :
              /\ memory_cache' = C29_Kept(memory_cache, leaderboard_type)
              /\ leaderboard_cache' = C29_Kept(leaderboard_cache, leaderboard_type)
        /\ UNCHANGED <<players, games, game_players, moves, player_ratings>>

\* C29: invalidate(type) removes the Tier-1 and Tier-2 entries of that type
\* for every limit and leaves those of the other type as they are;
\* invalidate(all) empties both tiers; players, games and counters stay.
C29_Invalidate == [][C29_InvalidateStep]_vars

\* the wins leaderboard was read and then invalidated while both tiers held
\* the efficiency leaderboard for two limits, which they still hold
C29_Witness ==
    /\ read_result.key[1] = "wins"
    /\ read_result.tier = 3
    /\ \A k \in DOMAIN memory_cache \cup DOMAIN leaderboard_cache : k[1] # "wins"
    /\ \A limit \in LeaderboardLimits :
          /\ cache_key("efficiency", limit) \in DOMAIN memory_cache
          /\ cache_key("efficiency", limit) \in DOMAIN leaderboard_cache

(***************************************************************************)
(* C30: a commit that fails during reconcile_all_player_stats              *)
(* (specification SpecReconFair).                                          *)
(***************************************************************************)
C30_Page == PlayerPage(players, reconcile.offset, reconcile.batch_size)

\* a turn of the loop whose commit failed: the page was not empty and no
\* batch was added to batches_processed
C30_CommitFailed ==
    /\ reconcile.running
    /\ reconcile'.offset > reconcile.offset
    /\ reconcile'.batches_processed = reconcile.batches_processed

C30_FailureStep ==
    C30_CommitFailed =>
        /\ players' = players
        /\ UNCHANGED <<games, game_players, moves, leaderboard_cache>>
        /\ reconcile'.running
        /\ reconcile'.offset = reconcile.offset + reconcile.batch_size
        /\ reconcile'.errors = reconcile.errors + Len(C30_Page)
        /\ reconcile'.updated_players = reconcile.updated_players
        /\ LogEntry("Error committing batch", reconcile.offset) \in error_log'

\* a run that has ended has visited every page, and its summary counts at
\* least one error for every failed batch
C30_Summary ==
    reconcile.finished =>
        /\ reconcile.offset >= Cardinality(DOMAIN players)
        /\ reconcile.offset % reconcile.batch_size = 0
        /\ reconcile.errors >= (reconcile.offset \div reconcile.batch_size)
                                   - reconcile.batches_processed
        /\ reconcile.batches_processed <= reconcile.offset \div reconcile.batch_size

C32_Invalid ==
    {g \in DOMAIN games : /\ games[g].status = "completed"
                          /\ games[g].winner_id = None
                          /\ ~_is_board_full(games[g].board)}

C32_Reported ==
    {issue.game_id : issue \in integrity_report.issues.invalid_game_states}

\* C32: a validation run reports, for every board size, exactly the games
\* that are completed without winner on a board that is not full.
C32_InvalidGameStates ==
    DOMAIN integrity_report.issues # {} => C32_Reported = C32_Invalid

\* the part that holds: every game reported is such a game, and a drawn
\* game with a full board is not reported
C32_ReportedAreInvalid ==
    DOMAIN integrity_report.issues # {} => C32_Reported \subseteq C32_Invalid

(***************************************************************************)
(* C33: cache pruning (specification SpecJobs).                            *)
(***************************************************************************)
\* the rows whose expiry lies more than days_old days in the past
C33_PastRetention(days_old) ==
    {k \in DOMAIN leaderboard_cache :
        now - leaderboard_cache[k].expires_at > days_old * 86400}

C33_CleanupStep ==
    (response' # response /\ response'.op = "cleanup") =>
        /\ \E days_old \in RetentionDays :
              /\ DOMAIN leaderboard_cache'
                     = DOMAIN leaderboard_cache \ C33_PastRetention(days_old)
              /\ response'.queue_id = Cardinality(C33_PastRetention(days_old))
        /\ \A k \in DOMAIN leaderboard_cache' :
              leaderboard_cache'[k] = leaderboard_cache[k]
        /\ memory_cache' = memory_cache

\* with the default of 7 days a row stays until 7 days after its expiry
C33_DefaultWindow ==
    \A k \in DOMAIN leaderboard_cache :
        LET kept == cleanup_expired_cache_entries(leaderboard_cache,
                                                  DefaultRetentionDays)
        IN  k \in DOMAIN kept.leaderboard_cache
                <=> now - leaderboard_cache[k].expires_at <= 7 * 86400

\* C33: pruning deletes exactly the Tier-2 rows whose expiry lies more than
\* the retention window (7 days by default) in the past and returns their
\* number; all other rows and Tier 1 stay as they are.
C33_Pruning == []C33_DefaultWindow /\ [][C33_CleanupStep]_vars

\* a run has deleted one row and left another that had expired more
\* recently; Tier 1 still holds its entries
C33_Witness ==
    /\ response.op = "cleanup"
    /\ response.queue_id = 1
    /\ \E k \in DOMAIN leaderboard_cache : leaderboard_cache[k].expires_at < now
    /\ \E k \in DOMAIN memory_cache : k \notin DOMAIN leaderboard_cache

(***************************************************************************)
(* C31: the maintenance jobs run again and in any order (specification     *)
(* SpecJobs).                                                              *)
(***************************************************************************)
\* a whole run of reconcile_all_player_stats from offset on, every commit
\* succeeding: the tables it leaves and the updated players it reports
RECURSIVE C31_ReconcileFrom(_, _, _)
C31_ReconcileFrom(db, offset, batch_size) ==
    LET player_ids == PlayerPage(db.players, offset, batch_size)
        batch == ReconcilePage(db, player_ids,
                               [players |-> db.players, batch_updated |-> 0,
                                batch_errors |-> 0, logged |-> {}])
        rest == C31_ReconcileFrom([db EXCEPT !.players = batch.players],
                                  offset + batch_size, batch_size)
    IN  IF player_ids = << >> THEN [db |-> db, updated_players |-> 0]
        ELSE [db |-> rest.db,
              updated_players |-> batch.batch_updated + rest.updated_players]

\* the tables after one job, run at the present clock reading
C31_After(job, db) ==
    IF job = "reconcile" THEN C31_ReconcileFrom(db, 0, MaxBatchSize).db
    ELSE IF job = "validate" THEN validate_data_integrity(db).db
    ELSE [db EXCEPT !.leaderboard_cache =
            cleanup_expired_cache_entries(@, DefaultRetentionDays).leaderboard_cache]

C31_Jobs == {"reconcile", "validate", "cleanup"}

C31_Tables == Database(games, game_players, moves, players, leaderboard_cache)

C31_Idempotent ==
    /\ \A job \in C31_Jobs :
          C31_After(job, C31_After(job, C31_Tables)) = C31_After(job, C31_Tables)
    /\ C31_ReconcileFrom(C31_After("reconcile", C31_Tables), 0, MaxBatchSize)
           .updated_players = 0
    /\ validate_data_integrity(C31_After("validate", C31_Tables)).report
           = validate_data_integrity(C31_Tables).report
    /\ cleanup_expired_cache_entries(
           C31_After("cleanup", C31_Tables).leaderboard_cache,
           DefaultRetentionDays).deleted_count = 0

C31_AnyOrder ==
    \A a, b, c \in C31_Jobs :
        {a, b, c} = C31_Jobs =>
            C31_After(c, C31_After(b, C31_After(a, C31_Tables)))
                = C31_After("cleanup",
                      C31_After("validate", C31_After("reconcile", C31_Tables)))

\* C31: reconciliation, the integrity checks and cache pruning, run a second
\* time with nothing written in between, change no stored state; a second
\* reconciliation reports no updated player; the three in any order leave
\* the same tables.
C31_JobsCommute == C31_Idempotent /\ C31_AnyOrder

\* all three jobs have run over tables with damaged counters: the
\* reconciliation has ended, the validation has reported, and the clean-up
\* has deleted a row
C31_Witness ==
    /\ reconcile.finished
    /\ reconcile.batches_processed = 2
    /\ integrity_report.total_issues > 0
    /\ response.op = "cleanup"
    /\ response.queue_id > 0
    /\ players[1].total_wins = 3

(***************************************************************************)
(* C34: the board size of a matched game (specification SpecSearch).       *)
(***************************************************************************)
\* the entries a step has turned from Searching into Matched
C34_Claimed ==
    {e \in DOMAIN player_queue : /\ player_queue[e].status = "searching"
                                 /\ player_queue'[e].status = "matched"}

C34_ClaimStep ==
    Len(matchmaking_history') > Len(matchmaking_history) =>
        LET record == matchmaking_history'[Len(matchmaking_history')]
            grid_size == games'[record.game_id].grid_size
        IN  \A e \in C34_Claimed :
                grid_size \in player_queue[e].preferences.grid_sizes

\* C34: the game of a claim has a board size that both matched players
\* accept, so no claim joins players without a common board size.
C34_CommonBoardSize == [][C34_ClaimStep]_vars

\* the size chosen is the smallest common one whenever there is one
C34_SmallestCommonStep ==
    Len(matchmaking_history') > Len(matchmaking_history) =>
        LET record == matchmaking_history'[Len(matchmaking_history')]
            grid_size == games'[record.game_id].grid_size
            common == {n \in MinGridSize .. MaxGridSize :
                         \A e \in C34_Claimed :
                             n \in player_queue[e].preferences.grid_sizes}
        IN  /\ Cardinality(C34_Claimed) = 2
            /\ common # {} => grid_size = SetMin(common)
            /\ common = {} => grid_size = 3

C34_SmallestCommon == [][C34_SmallestCommonStep]_vars

\* the rating difference of the record a claim writes lies within the
\* current radius of each of the two entries it claims
C35_ClaimStep ==
    Len(matchmaking_history') > Len(matchmaking_history) =>
        LET record == matchmaking_history'[Len(matchmaking_history')]
        IN  \A e \in C34_Claimed :
                record.rating_difference <= player_queue[e].current_rating_range

\* C35: no claim pairs two players whose rating difference exceeds the
\* current rating-range radius of either entry: the rating difference of
\* every match record is at most the current radius of the claiming entry and
\* at most the current radius of the claimed entry at the time of the claim.
C35_WithinBothRadii == [][C35_ClaimStep]_vars

\* the part that holds: the record's rating difference is the distance of the
\* two rating snapshots, and at least one of the two claimed entries (the one
\* whose search made the claim) has the other within its current radius
C35_ClaimerStep ==
    Len(matchmaking_history') > Len(matchmaking_history) =>
        LET record == matchmaking_history'[Len(matchmaking_history')]
        IN  \E e \in C34_Claimed :
                record.rating_difference <= player_queue[e].current_rating_range

C35_WithinClaimerRadius == [][C35_ClaimerStep]_vars

\* the players registered in active_searches, and the players that have a
\* Searching entry
C36_Registered == {p \in DOMAIN active_searches : active_searches[p] # None}

C36_Searching ==
    {player_queue[e].player_id :
        e \in {i \in DOMAIN player_queue : player_queue[i].status = "searching"}}

\* total_searching of get_queue_status: the number of Searching rows
C36_TotalSearching ==
    Cardinality({i \in DOMAIN player_queue : player_queue[i].status = "searching"})

C37_Won ==
    {g \in DOMAIN games : /\ games[g].status = "active"
                          /\ games'[g].status = "completed"
                          /\ games'[g].winner_id # None}

\* the moves of a player in a game of the moves table
C37_MovesIn(mvs, g, p) ==
    Cardinality({i \in DOMAIN mvs : mvs[i].game_id = g /\ mvs[i].player_id = p})

\* the counters the game/move history gives a player
C37_Derived(db, p) ==
    LET actual == _calculate_actual_efficiency(db, p)
    IN  IF actual = NoStats THEN NoCounters
        ELSE [total_wins |-> actual.wins, total_win_moves |-> actual.total_moves,
              efficiency |-> actual.efficiency]

C37_CompletionStep ==
    LET after == Database(games', game_players', moves', players', leaderboard_cache')
    IN  /\ \A g \in C37_Won :
              LET w == games'[g].winner_id
              IN  /\ players'[w].total_wins = players[w].total_wins + 1
                  /\ players'[w].total_win_moves
                         = players[w].total_win_moves + C37_MovesIn(moves', g, w)
                  /\ players'[w] = C37_Derived(after, w)
        /\ C37_Won = {} => players' = players

\* C37: when a game concludes with a winner and no failure occurs, the
\* winner's total wins grow by exactly 1 and the total moves-in-wins by the
\* number of moves the winner made in that game, the winning move included,
\* so that right after completion the winner's counters equal the values
\* derived from the game/move history; a draw and every non-terminal move
\* change no counters.
C37_CountersFollowHistory == [][C37_CompletionStep]_vars

\* what the completion does: one more win, and as many more moves as the
\* winner had made before the winning move; nobody else's counters change,
\* and no counters change without a win
C37_CommittedMovesStep ==
    /\ \A g \in C37_Won :
          LET w == games'[g].winner_id
          IN  /\ players'[w].total_wins = players[w].total_wins + 1
              /\ players'[w].total_win_moves
                     = players[w].total_win_moves + C37_MovesIn(moves, g, w)
              /\ C37_MovesIn(moves', g, w) = C37_MovesIn(moves, g, w) + 1
              /\ \A p \in DOMAIN players : p # w => players'[p] = players[p]
    /\ C37_Won = {} => players' = players

C37_CommittedMovesCounted == [][C37_CommittedMovesStep]_vars

\* the reconciliation run has finished and so has the game
C38_AllFinished ==
    /\ reconcile.finished
    /\ \A g \in DOMAIN games : games[g].status = "completed"

\* the run overlapped the completion: it had started on the tables of the
\* game in progress and has worked through its pages
C38_RunProcessed == reconcile.finished /\ reconcile.batches_processed > 0

\* C38: a reconciliation run interleaved with game completions never loses
\* a completion's counter increment and never counts it twice: once the run
\* and all completions have finished, every player's denormalized counters
\* equal the values derived from the game/move history.
C38_CountersAfterRun ==
    (C38_AllFinished /\ C38_RunProcessed) =>
        \A p \in DOMAIN players :
            players[p] = C37_Derived(Database(games, game_players, moves, players,
                                              leaderboard_cache), p)

\* the part that holds: the number of wins is neither lost nor doubled
C38_WinsAfterRun ==
    (C38_AllFinished /\ C38_RunProcessed) =>
        \A p \in DOMAIN players :
            players[p].total_wins
                = C37_Derived(Database(games, game_players, moves, players,
                                       leaderboard_cache), p).total_wins

\* two Searching entries of the same queue class, each within the other's
\* current radius, that score above the floor with each other
C39_Pair(e, j) ==
    /\ e \in DOMAIN player_queue
    /\ j \in DOMAIN player_queue
    /\ e # j
    /\ player_queue[e].status = "searching"
    /\ player_queue[j].status = "searching"
    /\ InReach(e, j)
    /\ InReach(j, e)
    /\ AboveThreshold(OpponentScore(e, j))

\* one of the two has been matched, has left the queue or has timed out
C39_Settled(e, j) ==
    /\ e \in DOMAIN player_queue
    /\ j \in DOMAIN player_queue
    /\ \/ player_queue[e].status # "searching"
       \/ player_queue[j].status # "searching"

\* as long as such a pair waits, one of the two has a search process
C39_PairServed ==
    \A e, j \in DOMAIN player_queue :
        C39_Pair(e, j) => search_task[e] = "scheduled" \/ search_task[j] = "scheduled"

\* C39: if two Searching entries of the same queue class are each within
\* the other's current radius and score above 0.3 with each other, and
\* neither leaves the queue nor times out, then under fair scheduling at
\* least one of the two is eventually Matched, whatever other entries are
\* in the pool: such a pair always has a search process at work for it, and
\* it does not stay as it is.
C39_PairMatched ==
    /\ []C39_PairServed
    /\ C39_Pair(1, 2) ~> C39_Settled(1, 2)

\* the part that holds: an iteration of the search of an entry that has
\* such a partner, with every player of the pool registered, claims a match
\* for the entry
C39_IterationClaims ==
    \A e, j \in DOMAIN player_queue :
        (C39_Pair(e, j) /\ search_task[e] = "scheduled") =>
            \A opponents \in potential_opponents(e) :
                LET iteration == _continuous_matchmaking_search(e, opponents)
                IN  Len(iteration.games) <= MaxGames =>
                        iteration.player_queue[e].status = "matched"

\* the relations between the fields of one rating row
C40_RowInvariant(rating) ==
    /\ rating.peak_rating >= rating.overall_rating
    /\ rating.best_win_streak >= rating.current_win_streak
    /\ rating.current_win_streak = 0 \/ rating.current_loss_streak = 0

C40_Rows == \A p \in DOMAIN player_ratings : C40_RowInvariant(player_ratings[p])

\* an update does not raise the deviation of a row
C40_UpdateStep ==
    \A p \in DOMAIN player_ratings :
        player_ratings'[p].rating_deviation <= player_ratings[p].rating_deviation

\* C40: after any sequence of rating updates applied to a record that starts
\* with the defaults (rating 1200, peak 1200, deviation 350, streaks 0), the
\* peak rating is at least the overall rating, the best win streak is at
\* least the current win streak, at most one of the current win streak and
\* the current loss streak is non-zero, and the deviation never increases
\* from one update to the next.
C40_RecordInvariants == []C40_Rows /\ [][C40_UpdateStep]_vars

\* a row after several updates: wins that raised the peak and the best
\* streak, then a loss that left the rating below the peak
C40_Witness ==
    \E p \in DOMAIN player_ratings :
        /\ player_ratings[p].games_played >= 3
        /\ player_ratings[p].peak_rating > player_ratings[p].overall_rating
        /\ player_ratings[p].best_win_streak >= 2
        /\ player_ratings[p].current_win_streak = 0
        /\ player_ratings[p].current_loss_streak > 0
        /\ player_ratings[p].rating_deviation < DEFAULT_DEVIATION

====
